---------------------------- MODULE Spec2Model ----------------------------
(***************************************************************************)
(* BoxChamp: live state extraction and rule-driven action engine.          *)
(*                                                                         *)
(* The module models, from src/BoxChamp.py:                                *)
(*   - MemoryReader (object manager resolution, object lookup by guid,     *)
(*     get_combat_stats),                                                  *)
(*   - BoxChampController._check_condition,                                *)
(*   - BoxChampController._targets_for / _run_macro_body,                  *)
(*   - the rotation engine thread with toggle_rotation_engine and          *)
(*     stop_all_rotations.                                                 *)
(*                                                                         *)
(* Specifications:                                                         *)
(*   Spec        the controller with the rotation engine thread            *)
(*   SpecLive    Spec with the fairness of the threads' scheduling         *)
(*   SpecLookup  _find_object_base_by_guid over drawn object chains        *)
(*   SpecCond    _check_condition over drawn conditions and snapshots      *)
(*   SpecMacro   sequential runs of macros (_run_macro_body)               *)
(*                                                                         *)
(* Time is counted in units of 0.1 s (the engine's tick wait).  Strings    *)
(* are sequences of ASCII codes, so that str.lower() is a computation.     *)
(***************************************************************************)
EXTENDS Integers, Sequences, FiniteSets, TLC

\* --------------------------------------------------------------------------
\* Strings
\* --------------------------------------------------------------------------

\* "Thrall"
NameThrall == <<84, 104, 114, 97, 108, 108>>
\* "thrall"
NameThrallLower == <<116, 104, 114, 97, 108, 108>>
\* "THRALL"
NameThrallUpper == <<84, 72, 82, 65, 76, 76>>
\* "Jaina"
NameJaina == <<74, 97, 105, 110, 97>>
\* "Boar"
NameBoar == <<66, 111, 97, 114>>
\* ""
EmptyStr == <<>>
\* "abc"
StrAbc == <<97, 98, 99>>
\* "1"
StrOne == <<49>>
\* "50"
StrFifty == <<53, 48>>
\* "None", the text of str(None)
StrNone == <<78, 111, 110, 101>>

\* str.lower() on ASCII text: 'A'..'Z' (65..90) move to 'a'..'z'.
LowerChar(c) == IF c >= 65 /\ c <= 90 THEN c + 32 ELSE c

Lower(s) == [i \in 1..Len(s) |-> LowerChar(s[i])]

IsDigit(c) == c >= 48 /\ c <= 57

RECURSIVE DigitsValue(_)
DigitsValue(s) ==
    IF Len(s) = 0 THEN 0
    ELSE 10 * DigitsValue(SubSeq(s, 1, Len(s) - 1)) + (s[Len(s)] - 48)

RECURSIVE IntToStr(_)
\* str(n) for n >= 0
IntToStr(n) ==
    IF n < 10 THEN <<48 + n>>
    ELSE Append(IntToStr(n \div 10), 48 + (n % 10))

\* --------------------------------------------------------------------------
\* Condition literals: condition.value is typed Any (an int, a str or None)
\* --------------------------------------------------------------------------

IntVal(n) == [k |-> "int", n |-> n, s |-> EmptyStr]
StrVal(s) == [k |-> "str", n |-> 0, s |-> s]
NoneVal == [k |-> "none", n |-> 0, s |-> EmptyStr]

\* float(value): [ok, n].  A str parses when it is a run of digits; any
\* other text is a ValueError, None is a TypeError.
Float(value) ==
    IF value.k = "int" THEN [ok |-> TRUE, n |-> value.n]
    ELSE IF value.k = "str" /\ Len(value.s) > 0
            /\ \A i \in 1..Len(value.s) : IsDigit(value.s[i])
         THEN [ok |-> TRUE, n |-> DigitsValue(value.s)]
    ELSE [ok |-> FALSE, n |-> 0]

\* str(value)
Str(value) ==
    IF value.k = "str" THEN value.s
    ELSE IF value.k = "int" THEN IntToStr(value.n)
    ELSE StrNone

\* --------------------------------------------------------------------------
\* Remote memory of one client process (what Pymem's typed reads return)
\* --------------------------------------------------------------------------

\* A typed read either returns a value or raises (MemoryReadError).
Ok(v) == [ok |-> TRUE, v |-> v]
Bad == [ok |-> FALSE, v |-> 0]

\* A string read (pm.read_string)
OkS(s) == [ok |-> TRUE, s |-> s]
BadS == [ok |-> FALSE, s |-> EmptyStr]

\* objects of the object manager's chain; a pointer to object n is n, the
\* null pointer is 0
NNodes == 3
Nodes == 1..NNodes

\* --------------------------------------------------------------------------
\* MemoryReader
\* --------------------------------------------------------------------------

\* _get_object_manager_base reading the chain on every call
GetObjectManagerBase_Reread(cache, mem) ==
    IF ~mem.conn.ok THEN [ret |-> 0, cache |-> 0]
    ELSE IF mem.conn.v = 0 THEN [ret |-> 0, cache |-> cache]
    ELSE IF ~mem.base.ok THEN [ret |-> 0, cache |-> 0]
    ELSE [ret |-> mem.base.v, cache |-> mem.base.v]

\* _get_object_manager_base: [ret, cache], cache the reader's
\* object_manager_base after the call.
GetObjectManagerBase(cache, mem) ==
    IF cache # 0 THEN [ret |-> cache, cache |-> cache]
    ELSE IF ~mem.conn.ok THEN [ret |-> 0, cache |-> 0]
    ELSE IF mem.conn.v = 0 THEN [ret |-> 0, cache |-> cache]
    ELSE IF ~mem.base.ok THEN [ret |-> 0, cache |-> 0]
    ELSE [ret |-> mem.base.v, cache |-> mem.base.v]

\* the iteration cap of the object walk: range(4096)
MaxHops == 4096

\* One pass of the body of "for _ in range(4096)".  st.cur is current_obj,
\* st.done says the loop was left (break or return), st.ret is the value a
\* return inside the loop gave, st.hops counts the next-pointers followed.
WalkStep(mem, st, guid_to_find) ==
    IF st.done THEN st
    ELSE IF st.cur = 0 THEN [st EXCEPT !.done = TRUE]
    ELSE IF ~mem.guid[st.cur].ok THEN [st EXCEPT !.done = TRUE]
    ELSE IF mem.guid[st.cur].v = guid_to_find
         THEN [st EXCEPT !.done = TRUE, !.ret = st.cur]
    ELSE IF ~mem.next[st.cur].ok THEN [st EXCEPT !.done = TRUE]
    ELSE [st EXCEPT !.cur = mem.next[st.cur].v, !.hops = st.hops + 1]

RECURSIVE WalkLoop(_, _, _, _)
\* n passes of the loop body, n >= 1 (halving keeps the evaluation shallow)
WalkLoop(mem, st, guid_to_find, n) ==
    IF st.done THEN st
    ELSE IF n = 1 THEN WalkStep(mem, st, guid_to_find)
    ELSE WalkLoop(mem, WalkLoop(mem, st, guid_to_find, n \div 2),
                  guid_to_find, n - (n \div 2))

\* _find_object_base_by_guid with the loop written range(4097)
FindObjectBaseByGuid_OneMore(cache, mem, guid_to_find) ==
    LET om == GetObjectManagerBase(cache, mem) IN
    IF om.ret = 0 \/ guid_to_find = 0
    THEN [raised |-> FALSE, ret |-> 0, hops |-> 0, cache |-> om.cache]
    ELSE IF ~mem.first.ok
    THEN [raised |-> TRUE, ret |-> 0, hops |-> 0, cache |-> om.cache]
    ELSE LET fin == WalkLoop(mem,
                        [cur |-> mem.first.v, done |-> FALSE, ret |-> 0, hops |-> 0],
                        guid_to_find, MaxHops + 1)
         IN [raised |-> FALSE, ret |-> fin.ret, hops |-> fin.hops,
             cache |-> om.cache]

\* _find_object_base_by_guid: [raised, ret, hops, cache].  The read of the
\* first-object field is outside the try block: its failure raises.
FindObjectBaseByGuid(cache, mem, guid_to_find) ==
    LET om == GetObjectManagerBase(cache, mem) IN
    IF om.ret = 0 \/ guid_to_find = 0
    THEN [raised |-> FALSE, ret |-> 0, hops |-> 0, cache |-> om.cache]
    ELSE IF ~mem.first.ok
    THEN [raised |-> TRUE, ret |-> 0, hops |-> 0, cache |-> om.cache]
    ELSE LET fin == WalkLoop(mem,
                        [cur |-> mem.first.v, done |-> FALSE, ret |-> 0, hops |-> 0],
                        guid_to_find, MaxHops)
         IN [raised |-> FALSE, ret |-> fin.ret, hops |-> fin.hops,
             cache |-> om.cache]

\* the percentage cut off instead of rounded
Percent_Floor(value, max) == (value * 100) \div max

\* (value, max) whose percentage lies halfway between two integers and
\* whose binary floating-point product (value / max) * 100 comes out just
\* below the half (23 / 40 * 100 is 57.49999999999999) or just above it
\* (49 / 40 * 100 is 122.50000000000001)
FloatBelowHalf == {<<23, 40>>}
FloatAboveHalf == {<<49, 40>>}

\* round((value / max) * 100), max > 0.  The product is a binary float:
\* off the halves it rounds to the nearest integer; on a half, round() takes
\* the even neighbour when the product is exact (1 / 8 * 100 is 12.5) and
\* follows the rounding error of the product otherwise.
Percent(value, max) ==
    LET q == (value * 100) \div max
        r == (value * 100) - q * max
    IN IF 2 * r < max THEN q
       ELSE IF 2 * r > max THEN q + 1
       ELSE IF <<value, max>> \in FloatBelowHalf THEN q
       ELSE IF <<value, max>> \in FloatAboveHalf THEN q + 1
       ELSE IF q % 2 = 0 THEN q ELSE q + 1

\* the stats dictionary get_combat_stats starts from
InitialStats ==
    [player_hp |-> 0, player_max_hp |-> 0, player_mp |-> 0, player_max_mp |-> 0,
     player_hp_percent |-> 0, player_mp_percent |-> 0, player_level |-> 0,
     target_hp |-> 0, target_max_hp |-> 0, target_hp_percent |-> 0,
     target_level |-> 0, has_target |-> FALSE, target_name |-> EmptyStr,
     combo_points |-> 0]

\* the name sub-path of get_combat_stats (its own try/except)
TargetName(mem, target_base) ==
    IF ~mem.name1[target_base].ok THEN EmptyStr
    ELSE IF mem.name1[target_base].v = 0 THEN EmptyStr
    ELSE IF ~mem.name2[target_base].ok THEN EmptyStr
    ELSE IF mem.name2[target_base].v = 0 THEN EmptyStr
    ELSE IF ~mem.name[target_base].ok THEN EmptyStr
    ELSE mem.name[target_base].s

\* the target sub-path of get_combat_stats, entered with target_guid > 0:
\* [some, stats]
TargetStats(cache, mem, stats) ==
    LET s1 == [stats EXCEPT !.has_target = TRUE]
        tf == FindObjectBaseByGuid(cache, mem, mem.target_guid.v)
        tb == tf.ret
    IN IF tf.raised THEN [some |-> FALSE, stats |-> InitialStats]
       ELSE IF tb = 0 THEN [some |-> TRUE, stats |-> s1]
       ELSE IF ~mem.storage[tb].ok THEN [some |-> FALSE, stats |-> InitialStats]
       ELSE IF mem.storage[tb].v = 0
            THEN [some |-> TRUE,
                  stats |-> [s1 EXCEPT !.target_name = TargetName(mem, tb)]]
       ELSE IF ~mem.hp[tb].ok \/ ~mem.maxhp[tb].ok \/ ~mem.level[tb].ok
            THEN [some |-> FALSE, stats |-> InitialStats]
       ELSE [some |-> TRUE,
             stats |-> [s1 EXCEPT
                 !.target_hp = mem.hp[tb].v,
                 !.target_max_hp = mem.maxhp[tb].v,
                 !.target_level = mem.level[tb].v,
                 !.target_hp_percent =
                     IF mem.maxhp[tb].v > 0
                     THEN Percent(mem.hp[tb].v, mem.maxhp[tb].v) ELSE 0,
                 !.target_name = TargetName(mem, tb)]]

\* the player part of get_combat_stats, after the player object was found
PlayerStats(mem, player_base) ==
    [InitialStats EXCEPT
        !.combo_points = mem.combo.v,
        !.player_hp = mem.hp[player_base].v,
        !.player_max_hp = mem.maxhp[player_base].v,
        !.player_mp = mem.mp[player_base].v,
        !.player_max_mp = mem.maxmp[player_base].v,
        !.player_level = mem.level[player_base].v,
        !.player_hp_percent =
            IF mem.maxhp[player_base].v > 0
            THEN Percent(mem.hp[player_base].v, mem.maxhp[player_base].v) ELSE 0,
        !.player_mp_percent =
            IF mem.maxmp[player_base].v > 0
            THEN Percent(mem.mp[player_base].v, mem.maxmp[player_base].v) ELSE 0]

\* get_combat_stats: [some, stats, cache]; some = FALSE is a return of None
\* (also the one of the outer except), cache the reader's object_manager_base
\* after the call.
GetCombatStats(cache, mem) ==
    LET om == GetObjectManagerBase(cache, mem)
        none == [some |-> FALSE, stats |-> InitialStats, cache |-> om.cache]
    IN IF om.ret = 0 THEN none
       ELSE IF ~mem.combo.ok THEN none
       ELSE IF ~mem.local_guid.ok \/ mem.local_guid.v = 0 THEN none
       ELSE LET pf == FindObjectBaseByGuid(om.cache, mem, mem.local_guid.v)
                pb == pf.ret
            IN IF pf.raised \/ pb = 0 THEN none
               ELSE IF ~mem.storage[pb].ok \/ mem.storage[pb].v = 0 THEN none
               ELSE IF ~mem.hp[pb].ok \/ ~mem.maxhp[pb].ok \/ ~mem.mp[pb].ok
                       \/ ~mem.maxmp[pb].ok \/ ~mem.level[pb].ok THEN none
               ELSE IF ~mem.target_guid.ok THEN none
               ELSE IF mem.target_guid.v > 0
                    THEN LET t == TargetStats(om.cache, mem, PlayerStats(mem, pb))
                         IN [some |-> t.some, stats |-> t.stats, cache |-> om.cache]
               ELSE [some |-> TRUE, stats |-> PlayerStats(mem, pb),
                     cache |-> om.cache]

\* --------------------------------------------------------------------------
\* Memory images the specifications draw from
\* --------------------------------------------------------------------------

\* the 8-byte identifier of object n
GuidOf(n) == 10 + n

\* A client in the world: object 1 is the local player, object 2 a creature
\* named "Boar", every other object a party member named "thrall".  The chain
\* runs 1 -> 2 -> ... -> NNodes -> null.
Healthy ==
    [conn |-> Ok(1), base |-> Ok(1), combo |-> Ok(2),
     local_guid |-> Ok(GuidOf(1)), first |-> Ok(1), target_guid |-> Ok(0),
     guid |-> [n \in Nodes |-> Ok(GuidOf(n))],
     next |-> [n \in Nodes |-> Ok(IF n < NNodes THEN n + 1 ELSE 0)],
     storage |-> [n \in Nodes |-> Ok(n)],
     hp |-> [n \in Nodes |-> Ok(IF n = 1 THEN 40 ELSE 30)],
     maxhp |-> [n \in Nodes |-> Ok(IF n = 1 THEN 100 ELSE 40)],
     mp |-> [n \in Nodes |-> Ok(10)],
     maxmp |-> [n \in Nodes |-> Ok(80)],
     level |-> [n \in Nodes |-> Ok(IF n = 2 THEN 12 ELSE 60)],
     name1 |-> [n \in Nodes |-> Ok(n)],
     name2 |-> [n \in Nodes |-> Ok(n)],
     name |-> [n \in Nodes |-> OkS(IF n = 2 THEN NameBoar ELSE NameThrallLower)]]

\* the player's health set to hp of 100
WithHp(mem, hp) == [mem EXCEPT !.hp[1] = Ok(hp), !.maxhp[1] = Ok(100)]

\* object n selected as the current target
WithTarget(mem, n) == [mem EXCEPT !.target_guid = Ok(GuidOf(n))]

\* the static client-connection pointer cannot be read / reads as null
ConnUnreadable == [Healthy EXCEPT !.conn = Bad]
ConnNull == [Healthy EXCEPT !.conn = Ok(0)]
\* the second hop of the object manager chain fails / reads as null
BaseUnreadable == [Healthy EXCEPT !.base = Bad]
BaseNull == [Healthy EXCEPT !.base = Ok(0)]

\* images whose object manager cannot be resolved
UnresolvableImages == {ConnUnreadable, ConnNull, BaseUnreadable, BaseNull}

\* --------------------------------------------------------------------------
\* Condition evaluator
\* --------------------------------------------------------------------------

\* VALID_STATS
VALID_STATS ==
    {"player_hp_percent", "player_mp_percent", "target_hp_percent", "has_target",
     "target_name", "combo_points", "player_level", "target_level",
     "target_is_own_character"}

\* VALID_OPERATORS, the keys of op_map
VALID_OPERATORS == {"<", ">", "==", "!=", "<=", ">="}

Condition(stat, operator, value) ==
    [stat |-> stat, operator |-> operator, value |-> value]

\* op_map with "<=" and ">=" bound to the strict comparisons
OpMap_Strict(operator, a, b) ==
    CASE operator = "<" -> a < b
      [] operator = ">" -> a > b
      [] operator = "==" -> a = b
      [] operator = "!=" -> a # b
      [] operator = "<=" -> a < b
      [] operator = ">=" -> a > b

\* op_map[operator](a, b)
OpMap(operator, a, b) ==
    CASE operator = "<" -> a < b
      [] operator = ">" -> a > b
      [] operator = "==" -> a = b
      [] operator = "!=" -> a # b
      [] operator = "<=" -> a <= b
      [] operator = ">=" -> a >= b

Returns(b) == [raised |-> FALSE, val |-> b]
\* "condition.value > 0" on a str or None: TypeError, not caught
Raises == [raised |-> TRUE, val |-> FALSE]

\* {slot.character_name.lower() for slot in cfg.slots.values()
\*  if slot.character_name}
OwnCharacterNames(character_names) ==
    {Lower(nm) : nm \in {x \in character_names : x # EmptyStr}}

\* the value of is_true for the two boolean-like statistics
IsTrue(condition, stats, character_names) ==
    IF condition.stat = "has_target" THEN stats[condition.stat]
    ELSE LET target_name ==
                 Lower(IF "target_name" \in DOMAIN stats
                       THEN stats["target_name"] ELSE EmptyStr)
         IN IF target_name # EmptyStr
            THEN target_name \in OwnCharacterNames(character_names)
            ELSE FALSE

\* _check_condition(condition, stats): [raised, val]
CheckCondition(condition, stats, character_names) ==
    IF condition.stat \notin DOMAIN stats THEN Returns(FALSE)
    ELSE IF condition.stat \in {"has_target", "target_is_own_character"}
    THEN IF condition.value.k # "int" THEN Raises
         ELSE LET expected_bool == condition.value.n > 0
                  is_true == IsTrue(condition, stats, character_names)
              IN IF condition.operator = "==" THEN Returns(is_true = expected_bool)
                 ELSE IF condition.operator = "!=" THEN Returns(is_true # expected_bool)
                 ELSE Returns(FALSE)
    ELSE IF condition.stat = "target_name"
    THEN LET stat_str == Lower(stats[condition.stat])
             cond_str == Lower(Str(condition.value))
         IN IF condition.operator = "==" THEN Returns(stat_str = cond_str)
            ELSE IF condition.operator = "!=" THEN Returns(stat_str # cond_str)
            ELSE Returns(FALSE)
    ELSE IF condition.operator \notin VALID_OPERATORS THEN Returns(FALSE)
    ELSE IF ~Float(condition.value).ok THEN Returns(FALSE)
    ELSE Returns(OpMap(condition.operator, stats[condition.stat],
                       Float(condition.value).n))

\* --------------------------------------------------------------------------
\* State
\* --------------------------------------------------------------------------

VARIABLES
    \* SpecCond: one call of _check_condition
    cc_cond,        \* the Condition
    cc_mem,         \* the memory image the snapshot is extracted from
    cc_drop,        \* a key removed from the snapshot before the call ("" = none)
    cc_names,       \* the character_name of the configured slots
    cc_ret,         \* [pc, val]: "call" before, "returned" / "raised" after
    \* SpecLookup: one call of _find_object_base_by_guid
    lk_mem,         \* the memory image walked
    lk_guid,        \* guid_to_find
    lk_ret,         \* [pc, ret, hops]
    \* the controller's window registry
    hwnds,          \* self.hwnds: the window handles, main first
    main_hwnd,      \* self.main_hwnd (0 = None)
    proc_hwnd,      \* self.proc_hwnd: slot -> window handle
    \* SpecMacro: macros run one after the other
    rr_index,       \* Macro.rr_index of every macro
    rr_state,       \* self._rr_state
    mac_log,        \* per macro, the target list of each of its runs
    \* Spec: the controller and the rotation engine
    running_set,    \* self.running_set is set (TRUE) or None (FALSE)
    memory_readers, \* self.memory_readers: hwnd -> the reader's object_manager_base
    cfg_assigned,   \* cfg.slots[s].assigned_rotation ("" = None)
    window_alive,   \* the handles win32gui.IsWindow holds of
    engine_thread,  \* self._rotation_engine_thread (0 = None, else a thread id)
    stop_event_ref, \* self._rotation_stop_event (0 = never assigned, else an event id)
    event_set,      \* per Event object: is_set()
    th,             \* per engine thread: position and locals of _thread_rotation_engine
    hk,             \* the hotkey thread, inside toggle_rotation_engine or idle; its last status message
    gui,            \* the GUI thread, inside stop_all_rotations / stop_set or idle
    stop_thread,    \* a BC-StopSet thread is running
    errors,         \* the exceptions that escaped a thread's function
    since_fire,     \* per hwnd: time since its last fire in this run of the engine (-1 = none)
    \* SpecSnap: one call of get_combat_stats
    sn_mem,         \* the memory image read
    sn_ret,         \* [pc, some, stats]: "call" before, "returned" after
    \* SpecPost: the threads that post synthetic messages
    lock_owner,     \* the thread that holds self._broadcast_lock ("" = free)
    poster,         \* per posting thread: its position and the targets left
    \* SpecBase: calls of _get_object_manager_base on one reader
    om_cache,       \* the reader's object_manager_base
    om_mem,         \* what the two reads of the pointer chain give now
    \* SpecToggle: what an observer of the toggles and the fires has seen
    tg_last,        \* how the last call of toggle_rotation_engine ended ("" = none yet)
    tg_since,       \* per hwnd: time since its last fire, in whatever run of the engine (-1 = none)
    \* SpecRace: the BC-Macro threads inside the head of _run_macro_body
    worker,         \* per thread: [pc, name, idx, index]
    \* SpecKeys: the keyboard and the input listener (on_key)
    kb_cfg,         \* the settings on_key reads
    fg_hwnd,        \* win32gui.GetForegroundWindow()
    phys_down,      \* the keys that are physically down
    keys_down,      \* self._broadcast_keys_down
    key_state,      \* per client window: the keys it was sent a key-down for and no key-up since
    \* SpecLoop: the loop of one looping macro and its hotkey
    loop_count,     \* Macro.loop_count (0 = None)
    loop_stop,      \* self._loop_stop.get(name): the id of the Event (0 = no entry)
    loop_threads,   \* self._loop_threads.get(name): the id of the thread (0 = no entry)
    loop_set,       \* the Events that are set
    lp,             \* per BC-Loop thread: its position in _loop and its counter i
    cb,             \* the thread of the hotkey callback: [pc, ev]
    om_last         \* the last call: [called, cache0, mem, ret], and retried: a call after a failed one resolved the base

condVars == <<cc_cond, cc_mem, cc_drop, cc_names, cc_ret>>
lookupVars == <<lk_mem, lk_guid, lk_ret>>
windowVars == <<hwnds, main_hwnd>>
macroVars == <<rr_index, rr_state, mac_log>>
setVars == <<running_set, memory_readers, cfg_assigned, window_alive>>
engineVars == <<engine_thread, stop_event_ref, event_set, th>>
callerVars == <<hk, gui, stop_thread>>
obsVars == <<errors, since_fire>>
schedVars == <<setVars, engineVars, callerVars, obsVars>>
snapVars == <<sn_mem, sn_ret>>
postVars == <<lock_owner, poster>>
baseVars == <<om_cache, om_mem, om_last>>
\* the variables of the specifications added for single components
toggleVars == <<tg_last, tg_since>>
raceVars == <<worker>>
keysVars == <<kb_cfg, fg_hwnd, phys_down, keys_down, key_state>>
loopVars == <<loop_count, loop_stop, loop_threads, loop_set, lp, cb>>
extraVars == <<baseVars, toggleVars, raceVars, keysVars, loopVars>>
\* the variables of the specifications of single calls and of the posts
callVars == <<condVars, lookupVars, macroVars, snapVars, postVars, extraVars>>
vars == <<condVars, lookupVars, windowVars, proc_hwnd, macroVars, schedVars,
          snapVars, postVars, extraVars>>

\* --------------------------------------------------------------------------
\* SpecCond
\* --------------------------------------------------------------------------

\* a stats dictionary without one of its keys
WithoutKey(stats, key) == [k \in (DOMAIN stats) \ {key} |-> stats[k]]

\* the snapshot handed to _check_condition
CcStats ==
    LET snap == GetCombatStats(0, cc_mem).stats
    IN IF cc_drop = "" THEN snap ELSE WithoutKey(snap, cc_drop)

\* memory images of the evaluator's inputs: no target, the creature targeted,
\* the party member "thrall" targeted, full and low health
CondImages ==
    {Healthy, WithTarget(Healthy, 2), WithTarget(Healthy, 3),
     WithTarget(WithHp(Healthy, 100), 3), WithHp(Healthy, 50)}

CondStats == VALID_STATS \cup {"no_such_stat", "player_hp"}
CondOperators == VALID_OPERATORS \cup {"~=", ""}
CondValues ==
    {IntVal(0), IntVal(1), IntVal(50), StrVal(StrAbc), StrVal(StrFifty),
     StrVal(NameThrallUpper), StrVal(StrOne), NoneVal}
CondNameSets == {{NameThrall, EmptyStr}, {NameJaina}, {}}

CondIdle ==
    /\ cc_cond = Condition("player_hp_percent", "<", IntVal(50))
    /\ cc_mem = Healthy
    /\ cc_drop = ""
    /\ cc_names = {}
    /\ cc_ret = [pc |-> "idle", val |-> FALSE]

CondInit ==
    /\ cc_cond \in {Condition(st, op, v) :
                      st \in CondStats, op \in CondOperators, v \in CondValues}
    /\ cc_mem \in CondImages
    /\ cc_drop \in {"", "has_target", "target_name"}
    /\ cc_names \in CondNameSets
    /\ cc_ret = [pc |-> "call", val |-> FALSE]

\* the call of _check_condition and its outcome
Evaluate ==
    /\ cc_ret.pc = "call"
    /\ LET r == CheckCondition(cc_cond, CcStats, cc_names)
       IN cc_ret' = [pc |-> IF r.raised THEN "raised" ELSE "returned",
                     val |-> r.val]
    /\ UNCHANGED <<cc_cond, cc_mem, cc_drop, cc_names>>

\* --------------------------------------------------------------------------
\* SpecLookup
\* --------------------------------------------------------------------------

\* a guid no object carries
AbsentGuid == GuidOf(NNodes + 1)

LookupIdle ==
    /\ lk_mem = Healthy
    /\ lk_guid = 0
    /\ lk_ret = [pc |-> "idle", raised |-> FALSE, ret |-> 0, hops |-> 0]

\* Chains of every shape over the objects: each next-pointer is null or any
\* object (so cycles of every length occur), the first-object pointer is
\* null, an object or unreadable, and one object's guid may be unreadable.
LookupInit ==
    /\ \E nx \in [Nodes -> 0..NNodes], fst \in {Ok(0), Ok(1), Bad},
          badguid \in 0..NNodes :
         lk_mem = [Healthy EXCEPT
                     !.next = [n \in Nodes |-> Ok(nx[n])],
                     !.first = fst,
                     !.guid = [n \in Nodes |->
                                 IF n = badguid THEN Bad ELSE Ok(GuidOf(n))]]
    /\ lk_guid \in {GuidOf(NNodes), AbsentGuid}
    /\ lk_ret = [pc |-> "call", raised |-> FALSE, ret |-> 0, hops |-> 0]

\* the call of _find_object_base_by_guid and its outcome
Lookup ==
    /\ lk_ret.pc = "call"
    /\ LET r == FindObjectBaseByGuid(0, lk_mem, lk_guid)
       IN lk_ret' = [pc |-> IF r.raised THEN "raised" ELSE "returned",
                     raised |-> r.raised, ret |-> r.ret, hops |-> r.hops]
    /\ UNCHANGED <<lk_mem, lk_guid>>

\* --------------------------------------------------------------------------
\* SpecSnap
\* --------------------------------------------------------------------------

\* (value, max) pairs a health or power field pair can hold
SnapPairs ==
    {<<4500, 6000>>, <<40, 100>>, <<2, 3>>, <<23, 40>>, <<49, 40>>, <<1, 8>>,
     <<0, 0>>, <<7, 0>>, <<5, -5>>, <<-3, 8>>}

\* (value, max) pairs of the target's health
SnapTargetPairs == {<<30, 40>>, <<23, 40>>, <<9, 0>>}

\* What the target sub-path meets.  The player is object 1; the target, when
\* it is in the chain, is object 2.
SnapTargetCases ==
    {"none", "absent", "found", "guid_bad", "next_bad", "storage_bad",
     "storage_null", "hp_bad", "maxhp_bad", "level_bad", "name1_bad",
     "name1_null", "name2_bad", "name2_null", "name_bad"}

\* the image of a client whose player has health pp and power mp, whose
\* target has health tp, the target sub-path meeting tc
SnapImage(pp, mp, tp, tc) ==
    LET m0 == [Healthy EXCEPT
                  !.hp[1] = Ok(pp[1]), !.maxhp[1] = Ok(pp[2]),
                  !.mp[1] = Ok(mp[1]), !.maxmp[1] = Ok(mp[2]),
                  !.hp[2] = Ok(tp[1]), !.maxhp[2] = Ok(tp[2])]
        m1 == IF tc = "none" THEN m0
              ELSE IF tc = "absent" THEN [m0 EXCEPT !.target_guid = Ok(GuidOf(NNodes + 1))]
              ELSE WithTarget(m0, 2)
    IN CASE tc = "guid_bad" -> [m1 EXCEPT !.guid[2] = Bad]
         [] tc = "next_bad" -> [m1 EXCEPT !.next[1] = Bad]
         [] tc = "storage_bad" -> [m1 EXCEPT !.storage[2] = Bad]
         [] tc = "storage_null" -> [m1 EXCEPT !.storage[2] = Ok(0)]
         [] tc = "hp_bad" -> [m1 EXCEPT !.hp[2] = Bad]
         [] tc = "maxhp_bad" -> [m1 EXCEPT !.maxhp[2] = Bad]
         [] tc = "level_bad" -> [m1 EXCEPT !.level[2] = Bad]
         [] tc = "name1_bad" -> [m1 EXCEPT !.name1[2] = Bad]
         [] tc = "name1_null" -> [m1 EXCEPT !.name1[2] = Ok(0)]
         [] tc = "name2_bad" -> [m1 EXCEPT !.name2[2] = Bad]
         [] tc = "name2_null" -> [m1 EXCEPT !.name2[2] = Ok(0)]
         [] tc = "name_bad" -> [m1 EXCEPT !.name[2] = BadS]
         [] OTHER -> m1

SnapIdle ==
    /\ sn_mem = Healthy
    /\ sn_ret = [pc |-> "idle", some |-> FALSE, stats |-> InitialStats]

SnapInit ==
    /\ \E pp \in SnapPairs, mp \in {<<10, 80>>, <<3, 0>>},
          tp \in SnapTargetPairs, tc \in SnapTargetCases :
         sn_mem = SnapImage(pp, mp, tp, tc)
    /\ sn_ret = [pc |-> "call", some |-> FALSE, stats |-> InitialStats]

\* the call of get_combat_stats by a reader that has not resolved the object
\* manager yet, and what it returns (the method lets no exception out)
Snapshot ==
    /\ sn_ret.pc = "call"
    /\ LET r == GetCombatStats(0, sn_mem)
       IN sn_ret' = [pc |-> "returned", some |-> r.some, stats |-> r.stats]
    /\ UNCHANGED sn_mem

\* --------------------------------------------------------------------------
\* SpecBase
\* --------------------------------------------------------------------------

\* what the read of the connection pointer and the read of the manager
\* pointer can give: a failure, null, or a pointer
BaseConnReads == {Bad, Ok(0), Ok(1)}
BaseMgrReads == {Bad, Ok(0), Ok(5), Ok(6)}
BaseMems == [conn : BaseConnReads, base : BaseMgrReads]

\* a read of the chain that the call reaches fails
ChainReadFails(mem) ==
    \/ ~mem.conn.ok
    \/ mem.conn.v # 0 /\ ~mem.base.ok

NoBaseCall ==
    [called |-> FALSE, cache0 |-> 0, mem |-> [conn |-> Ok(0), base |-> Ok(0)],
     ret |-> 0, retried |-> FALSE]

BaseIdle ==
    /\ om_cache = 0
    /\ om_mem = [conn |-> Ok(0), base |-> Ok(0)]
    /\ om_last = NoBaseCall

\* MemoryReader.__init__: object_manager_base = 0
BaseInit ==
    /\ om_cache = 0
    /\ om_mem \in BaseMems
    /\ om_last = NoBaseCall

\* one call of _get_object_manager_base
ResolveBase ==
    /\ LET r == GetObjectManagerBase(om_cache, om_mem)
       IN /\ om_cache' = r.cache
          /\ om_last' = [called |-> TRUE, cache0 |-> om_cache, mem |-> om_mem,
                         ret |-> r.ret,
                         retried |-> \/ om_last.retried
                                     \/ /\ om_last.called /\ om_last.cache0 = 0
                                        /\ ChainReadFails(om_last.mem)
                                        /\ r.ret # 0]
    /\ UNCHANGED om_mem

\* the client process changes the memory between two calls
MemoryChanges ==
    /\ \E m \in BaseMems \ {om_mem} : om_mem' = m
    /\ UNCHANGED <<om_cache, om_last>>

\* --------------------------------------------------------------------------
\* Claims on the object lookup (SpecLookup)
\* --------------------------------------------------------------------------

RECURSIVE ReachFrom(_, _, _)
\* the objects on the chain from cur, following at most k readable pointers
ReachFrom(mem, cur, k) ==
    IF cur = 0 THEN {}
    ELSE IF k = 0 \/ ~mem.next[cur].ok THEN {cur}
    ELSE {cur} \cup ReachFrom(mem, mem.next[cur].v, k - 1)

\* the objects of the chain that starts at the first-object pointer
ChainObjects(mem) ==
    IF mem.first.ok THEN ReachFrom(mem, mem.first.v, NNodes) ELSE {}

\* the chain runs into a cycle (it never reaches a null pointer)
ChainCyclic(mem) ==
    /\ mem.first.ok
    /\ mem.first.v # 0
    /\ \A n \in ChainObjects(mem) : mem.next[n].ok /\ mem.next[n].v # 0

\* C4: a lookup over a readable chain, cyclic or ending in a null pointer,
\* returns (it does not raise) after following at most 4096 next-pointers,
\* and it returns none (0) when no object of the chain carries the sought
\* identifier; an object it does return carries the identifier.
C4_LookupBounded ==
    (lk_ret.pc # "call" /\ lk_ret.pc # "idle" /\ lk_mem.first.ok) =>
        /\ lk_ret.pc = "returned"
        /\ lk_ret.hops <= 4096
        /\ (\A n \in ChainObjects(lk_mem) :
               ~(lk_mem.guid[n].ok /\ lk_mem.guid[n].v = lk_guid))
             => lk_ret.ret = 0
        /\ lk_ret.ret # 0 =>
             /\ lk_ret.ret \in ChainObjects(lk_mem)
             /\ lk_mem.guid[lk_ret.ret] = Ok(lk_guid)

\* C4 witness: a lookup over a cyclic chain without the identifier ran the
\* loop to its cap and returned none.
C4_Witness ==
    /\ lk_ret.pc = "returned"
    /\ ChainCyclic(lk_mem)
    /\ lk_ret.hops = 4096
    /\ lk_ret.ret = 0

\* --------------------------------------------------------------------------
\* Claims on the condition evaluator (SpecCond)
\* --------------------------------------------------------------------------

\* the snapshot is as the Stat Extractor produced it
CcFromExtractor == cc_drop = "" /\ GetCombatStats(0, cc_mem).some

\* the snapshot's target name equals, ignoring case, a configured name
CcTargetIsOwn ==
    \E nm \in cc_names :
        /\ nm # EmptyStr
        /\ Lower(nm) = Lower(GetCombatStats(0, cc_mem).stats.target_name)

\* C5: "target_is_own_character == 1" on an extracted snapshot is true when
\* the target name equals, ignoring case, a configured character name, and
\* false when it matches none.
C5_OwnCharacterMatches ==
    (/\ cc_ret.pc # "call"
     /\ CcFromExtractor
     /\ cc_cond = Condition("target_is_own_character", "==", IntVal(1)))
    => (cc_ret.pc = "returned" /\ cc_ret.val = CcTargetIsOwn)

\* C6: _check_condition returns a boolean for every condition and snapshot;
\* it never raises.
C6_NeverRaises == cc_ret.pc # "raised"

\* C7: a condition whose statistic is not a key of the snapshot (an unknown
\* kind, or a field the snapshot lacks) or whose operator is none of the six
\* evaluates to false.
C7_FailClosed ==
    (/\ cc_ret.pc # "call"
     /\ \/ cc_cond.stat \notin DOMAIN CcStats
        \/ cc_cond.operator \notin VALID_OPERATORS)
    => (cc_ret.pc = "returned" /\ cc_ret.val = FALSE)

\* --------------------------------------------------------------------------
\* Target policies and macros
\* --------------------------------------------------------------------------

\* the slots of the configuration; the window of slot s, once launched
Slots == {1, 2}
HwndOf(s) == 100 + s

\* [h for h in self.hwnds if h != self.main_hwnd]
ExceptMain(hw, main) == SelectSeq(hw, LAMBDA h : h # main)

\* self.hwnds[:1]
FirstOf(hw) == IF Len(hw) = 0 THEN <<>> ELSE <<hw[1]>>

\* [...] or self.hwnds[:1]
RoundRobinArr(hw, main) ==
    IF ExceptMain(hw, main) # <<>> THEN ExceptMain(hw, main) ELSE FirstOf(hw)

\* self._rr_state.get(key, 0)
RrGet(rrs, key) == IF key \in DOMAIN rrs THEN rrs[key] ELSE 0

\* self._rr_state[key] = v
RrPut(rrs, key, v) ==
    [k \in (DOMAIN rrs) \cup {key} |-> IF k = key THEN v ELSE rrs[k]]

RECURSIVE SlotWindows(_, _)
\* the loop over named_slots of target "slots"
SlotWindows(named_slots, ph) ==
    IF named_slots = <<>> THEN <<>>
    ELSE LET s == Head(named_slots)
             rest == SlotWindows(Tail(named_slots), ph)
         IN IF s \in DOMAIN ph /\ ph[s] # 0 THEN <<ph[s]>> \o rest ELSE rest

\* _targets_for with the final return taken for round_robin
TargetsFor_UnknownRoundRobin(target, named_slots, hw, main, ph, rrs) ==
    IF hw = <<>> THEN [ret |-> <<>>, rr_state |-> rrs]
    ELSE IF target = "main"
         THEN [ret |-> IF main # 0 THEN <<main>> ELSE <<>>, rr_state |-> rrs]
    ELSE IF target = "all" THEN [ret |-> hw, rr_state |-> rrs]
    ELSE IF target = "all_except_main"
         THEN [ret |-> ExceptMain(hw, main), rr_state |-> rrs]
    ELSE IF target = "slots"
         THEN [ret |-> SlotWindows(named_slots, ph), rr_state |-> rrs]
    ELSE LET arr == RoundRobinArr(hw, main)
             idx == RrGet(rrs, "__rr_default__") % Len(arr)
         IN [ret |-> <<arr[idx + 1]>>,
             rr_state |-> RrPut(rrs, "__rr_default__", idx + 1)]

\* _targets_for(target, named_slots): [ret, rr_state]
TargetsFor(target, named_slots, hw, main, ph, rrs) ==
    IF hw = <<>> THEN [ret |-> <<>>, rr_state |-> rrs]
    ELSE IF target = "main"
         THEN [ret |-> IF main # 0 THEN <<main>> ELSE <<>>, rr_state |-> rrs]
    ELSE IF target = "all" THEN [ret |-> hw, rr_state |-> rrs]
    ELSE IF target = "all_except_main"
         THEN [ret |-> ExceptMain(hw, main), rr_state |-> rrs]
    ELSE IF target = "slots"
         THEN [ret |-> SlotWindows(named_slots, ph), rr_state |-> rrs]
    ELSE IF target = "round_robin"
         THEN LET arr == RoundRobinArr(hw, main)
                  idx == RrGet(rrs, "__rr_default__") % Len(arr)
              IN [ret |-> <<arr[idx + 1]>>,
                  rr_state |-> RrPut(rrs, "__rr_default__", idx + 1)]
    ELSE [ret |-> hw, rr_state |-> rrs]

\* the macros of the configuration (cfg.macros)
Macros ==
    [rrA |-> [target |-> "round_robin", slots |-> <<>>],
     rrB |-> [target |-> "round_robin", slots |-> <<>>],
     burst |-> [target |-> "all", slots |-> <<>>],
     follow |-> [target |-> "all_except_main", slots |-> <<>>],
     pick |-> [target |-> "slots", slots |-> <<2, 1>>],
     odd |-> [target |-> "everyone", slots |-> <<>>]]

MacroNames == DOMAIN Macros

\* the head of _run_macro_body with the override of the round-robin targets
\* left out: the targets are the ones _targets_for picked from the index
\* shared by all macros
RunMacroTargets_SharedIndex(m, idx_m, hw, main, ph, rrs) ==
    LET t == TargetsFor(m.target, m.slots, hw, main, ph, rrs)
    IN [ran |-> t.ret # <<>>, targets |-> t.ret, rr_index |-> idx_m,
        rr_state |-> t.rr_state]

\* the head of _run_macro_body (up to the save of the advanced index):
\* [ran, targets, rr_index, rr_state]; ran = FALSE is one of its returns
\* before any step
RunMacroTargets(m, idx_m, hw, main, ph, rrs) ==
    LET t == TargetsFor(m.target, m.slots, hw, main, ph, rrs)
        arr == RoundRobinArr(hw, main)
    IN IF t.ret = <<>>
       THEN [ran |-> FALSE, targets |-> <<>>, rr_index |-> idx_m,
             rr_state |-> t.rr_state]
       ELSE IF m.target # "round_robin"
       THEN [ran |-> TRUE, targets |-> t.ret, rr_index |-> idx_m,
             rr_state |-> t.rr_state]
       ELSE IF arr = <<>>
       THEN [ran |-> FALSE, targets |-> <<>>, rr_index |-> idx_m,
             rr_state |-> t.rr_state]
       ELSE [ran |-> TRUE, targets |-> <<arr[(idx_m % Len(arr)) + 1]>>,
             rr_index |-> (idx_m + 1) % Len(arr), rr_state |-> t.rr_state]

\* the runs of macros a behaviour holds
MaxRuns == 5

RECURSIVE SumLen(_, _)
SumLen(f, S) ==
    IF S = {} THEN 0
    ELSE LET x == CHOOSE y \in S : TRUE IN Len(f[x]) + SumLen(f, S \ {x})

WindowsIdle ==
    /\ hwnds = <<>>
    /\ main_hwnd = 0

MacroIdle ==
    /\ rr_index = [name \in MacroNames |-> 0]
    /\ rr_state = <<>>
    /\ mac_log = [name \in MacroNames |-> <<>>]

\* No window, the main window alone, and the main window with one and with
\* three others ([A, B, C] = 102, 103, 104); slots 1 and 2 own 101 and 102.
MacroInit ==
    /\ hwnds \in {<<>>, <<101>>, <<101, 102>>, <<101, 102, 103, 104>>}
    /\ main_hwnd = IF hwnds = <<>> THEN 0 ELSE hwnds[1]
    /\ proc_hwnd = [s \in {x \in Slots : x <= Len(hwnds)} |-> HwndOf(s)]
    /\ rr_index = [name \in MacroNames |-> 0]
    /\ rr_state = <<>>
    /\ mac_log = [name \in MacroNames |-> <<>>]

\* one run of _run_macro_body for macro name, start to end
RunMacro(name) ==
    /\ SumLen(mac_log, MacroNames) < MaxRuns
    /\ LET r == RunMacroTargets(Macros[name], rr_index[name], hwnds, main_hwnd,
                                proc_hwnd, rr_state)
       IN /\ rr_index' = [rr_index EXCEPT ![name] = r.rr_index]
          /\ rr_state' = r.rr_state
          /\ mac_log' = [mac_log EXCEPT ![name] = Append(@, r.targets)]
    /\ UNCHANGED <<hwnds, main_hwnd, proc_hwnd>>

\* --------------------------------------------------------------------------
\* Claims on the macros (SpecMacro)
\* --------------------------------------------------------------------------

\* C8: with the window list unchanged and the index starting at 0, run k
\* (counted from 0) of a round-robin macro targets element k mod n of the
\* non-main handle list, whatever other macros ran in between.
C8_RoundRobinPerMacro ==
    \A name \in MacroNames :
        (Macros[name].target = "round_robin" /\ hwnds # <<>>) =>
            \A k \in 1..Len(mac_log[name]) :
                LET arr == RoundRobinArr(hwnds, main_hwnd)
                IN mac_log[name][k] = <<arr[((k - 1) % Len(arr)) + 1]>>

\* C8 witness: over [A, B, C] macro rrA ran four times, targeting A, B, C, A,
\* with a run of the other round-robin macro in between.
C8_Witness ==
    /\ hwnds = <<101, 102, 103, 104>>
    /\ mac_log["rrA"] = <<<<102>>, <<103>>, <<104>>, <<102>>>>
    /\ Len(mac_log["rrB"]) = 1

\* --------------------------------------------------------------------------
\* Rotations of the configuration
\* --------------------------------------------------------------------------

Hwnds == {HwndOf(s) : s \in Slots}

\* the key names the rotations use: "1", "2", "3", "F" and "!"
KeyOne == <<49>>
KeyTwo == <<50>>
KeyThree == <<51>>
KeyUpperF == <<70>>
KeyBang == <<33>>

\* the keys of VK_CODE_MAP the rotations can reach: '1', '2', '3' and 'f'
VK_CODE_MAP == {<<49>>, <<50>>, <<51>>, <<102>>}

RotationRule(keys_to_press, conditions) ==
    [keys_to_press |-> keys_to_press, conditions |-> conditions]

\* cfg.rotations, loop_interval in units of 0.1 s.  "heal" is
\* [hp < 50 -> "1", hp < 100 -> "2"] every 0.5 s; "assist" holds a rule of
\* two conditions and two keys; the rules of "spam" have no condition and its
\* first rule a key without key code; the first rule of "broken" compares
\* has_target with a text; the second rule of "mute" has no condition and no
\* key; the first rule of "bang" has no condition and only a key without
\* key code.
Rotations ==
    [heal |->
        [rules |-> <<
            RotationRule(<<KeyOne>>,
                <<Condition("player_hp_percent", "<", IntVal(50))>>),
            RotationRule(<<KeyTwo>>,
                <<Condition("player_hp_percent", "<", IntVal(100))>>)>>,
         loop_interval |-> 5],
     assist |->
        [rules |-> <<
            RotationRule(<<KeyUpperF, KeyThree>>,
                <<Condition("has_target", "==", IntVal(1)),
                  Condition("target_hp_percent", ">", IntVal(20))>>),
            RotationRule(<<KeyOne>>,
                <<Condition("player_hp_percent", "<=", StrVal(StrFifty))>>)>>,
         loop_interval |-> 3],
     spam |->
        [rules |-> <<
            RotationRule(<<KeyBang, KeyTwo>>, <<>>),
            RotationRule(<<KeyThree>>, <<>>)>>,
         loop_interval |-> 0],
     broken |->
        [rules |-> <<
            RotationRule(<<KeyThree>>,
                <<Condition("has_target", "==", StrVal(StrAbc))>>),
            RotationRule(<<KeyTwo>>,
                <<Condition("player_hp_percent", "<", IntVal(100))>>)>>,
         loop_interval |-> 1],
     mute |->
        [rules |-> <<
            RotationRule(<<KeyOne>>,
                <<Condition("player_hp_percent", "<", IntVal(50))>>),
            RotationRule(<<>>, <<>>),
            RotationRule(<<KeyThree>>, <<>>)>>,
         loop_interval |-> 2],
     bang |->
        [rules |-> <<
            RotationRule(<<KeyBang>>, <<>>),
            RotationRule(<<KeyTwo>>,
                <<Condition("player_hp_percent", "<", IntVal(100))>>)>>,
         loop_interval |-> 1]]

\* the character names of the configured slots
CharacterNames == {NameThrall}

\* what a read of a client's memory can find at the time of a poll
SchedImages ==
    [low |-> WithTarget(Healthy, 2),
     full |-> WithHp(Healthy, 100),
     unres |-> ConnUnreadable,
     null |-> BaseNull]

\* --------------------------------------------------------------------------
\* The rotation engine: pure parts
\* --------------------------------------------------------------------------

\* the largest age a clock is counted to; it is at least every loop_interval
AgeCap == 5

Min(a, b) == IF a < b THEN a ELSE b

AgeAdd(age, d) == Min(age + d, AgeCap)

\* time.time() - client_rotation_map.get(hwnd, (None, 0.0))[1], capped: a
\* client without entry last fired at time 0.0
Elapsed(map, hwnd) == IF hwnd \in DOMAIN map THEN map[hwnd] ELSE AgeCap

\* the complement of "time.time() - last_exec_time < rotation.loop_interval"
Due_Always(elapsed, loop_interval) == TRUE

Due(elapsed, loop_interval) == ~(elapsed < loop_interval)

RECURSIVE AllConditionsMet(_, _, _)
\* all(self._check_condition(cond, stats) for cond in conditions): [raised, val]
AllConditionsMet(conditions, stats, names) ==
    IF conditions = <<>> THEN Returns(TRUE)
    ELSE LET r == CheckCondition(Head(conditions), stats, names)
         IN IF r.raised THEN Raises
            ELSE IF ~r.val THEN Returns(FALSE)
            ELSE AllConditionsMet(Tail(conditions), stats, names)

RECURSIVE RunRules_NoBreak(_, _, _, _, _)
\* the rule loop without its break: every rule is evaluated, the last match
\* is the one reported
RunRules_NoBreak(rules, stats, names, i, acc) ==
    IF i > Len(rules) THEN acc
    ELSE LET a == AllConditionsMet(rules[i].conditions, stats, names)
             seen == Append(acc.evaluated, i)
         IN IF a.raised
            THEN [raised |-> TRUE, fired |-> acc.fired, evaluated |-> seen]
            ELSE RunRules_NoBreak(rules, stats, names, i + 1,
                     [raised |-> FALSE,
                      fired |-> IF a.val THEN i ELSE acc.fired,
                      evaluated |-> seen])

RECURSIVE RunRules(_, _, _, _, _)
\* "for rule in rotation.rules" from rule i on: [raised, fired, evaluated];
\* fired is the index of the rule that fired (0 = none), evaluated the
\* indices of the rules whose conditions were evaluated, in order
RunRules(rules, stats, names, i, acc) ==
    IF i > Len(rules) THEN acc
    ELSE LET a == AllConditionsMet(rules[i].conditions, stats, names)
             seen == Append(acc.evaluated, i)
         IN IF a.raised
            THEN [raised |-> TRUE, fired |-> 0, evaluated |-> seen]
            ELSE IF a.val
            THEN [raised |-> FALSE, fired |-> i, evaluated |-> seen]
            ELSE RunRules(rules, stats, names, i + 1,
                     [raised |-> FALSE, fired |-> 0, evaluated |-> seen])

\* _post_key_event(hwnd, key, event_type): the messages posted, none for a
\* key whose lower-case name has no key code
PostKeyEvent(hwnd, key, event_type) ==
    IF Lower(key) \notin VK_CODE_MAP THEN <<>>
    ELSE <<[hwnd |-> hwnd, vk |-> Lower(key), type |-> event_type]>>

\* the keys of a rule sent as all key-downs followed by all key-ups
KeyPosts_DownsThenUps(hwnd, keys) ==
    LET Each(type) ==
            [i \in 1..Len(keys) |-> PostKeyEvent(hwnd, keys[i], type)]
        Flat(ss) ==
            LET F[i \in 0..Len(ss)] == IF i = 0 THEN <<>> ELSE F[i - 1] \o ss[i]
            IN F[Len(ss)]
    IN Flat(Each("down")) \o Flat(Each("up"))

RECURSIVE KeyPosts(_, _)
\* "for key_to_press in rule.keys_to_press": down, then up, key after key
KeyPosts(hwnd, keys) ==
    IF keys = <<>> THEN <<>>
    ELSE PostKeyEvent(hwnd, Head(keys), "down")
         \o PostKeyEvent(hwnd, Head(keys), "up")
         \o KeyPosts(hwnd, Tail(keys))

\* a function as the table of its values, computed once
Tabulated(f) == f @@ <<>>

\* get_combat_stats of a reader whose object_manager_base is cache, on each
\* of the images
PolledStats ==
    Tabulated([cache \in {0, Healthy.base.v} |->
        Tabulated([img \in DOMAIN SchedImages |->
            GetCombatStats(cache, SchedImages[img])])])

\* "reader = self.memory_readers.get(hwnd)" and "stats =
\* reader.get_combat_stats() if reader else None", the client's memory
\* holding image img: [some, stats, cache]
ReadStats(readers, hwnd, img) ==
    IF hwnd \notin DOMAIN readers
    THEN [some |-> FALSE, stats |-> InitialStats, cache |-> 0]
    ELSE PolledStats[readers[hwnd]][img]

\* the body of the loop with the last-fire time written only when the rule
\* that fired has a key with a key code
ClientTick_RecordsWhenPosted(rotation, readers, hwnd, img, names) ==
    LET snap == ReadStats(readers, hwnd, img) IN
    IF ~snap.some
    THEN [state |-> "no_snapshot", raised |-> FALSE, fired |-> 0,
          evaluated |-> <<>>, keys |-> <<>>, recorded |-> FALSE,
          cache |-> snap.cache]
    ELSE LET r == RunRules(rotation.rules, snap.stats, names, 1,
                      [raised |-> FALSE, fired |-> 0, evaluated |-> <<>>])
             keys == IF r.fired = 0 THEN <<>>
                     ELSE rotation.rules[r.fired].keys_to_press
         IN [state |-> IF r.raised THEN "raised" ELSE "evaluated",
             raised |-> r.raised, fired |-> r.fired,
             evaluated |-> r.evaluated,
             keys |-> keys,
             recorded |-> KeyPosts(hwnd, keys) # <<>>, cache |-> snap.cache]

\* the body of the loop with the last-fire time written whether or not a
\* rule fired
ClientTick_RecordsAlways(rotation, readers, hwnd, img, names) ==
    LET snap == ReadStats(readers, hwnd, img) IN
    IF ~snap.some
    THEN [state |-> "no_snapshot", raised |-> FALSE, fired |-> 0,
          evaluated |-> <<>>, keys |-> <<>>, recorded |-> FALSE,
          cache |-> snap.cache]
    ELSE LET r == RunRules(rotation.rules, snap.stats, names, 1,
                      [raised |-> FALSE, fired |-> 0, evaluated |-> <<>>])
         IN [state |-> IF r.raised THEN "raised" ELSE "evaluated",
             raised |-> r.raised, fired |-> r.fired,
             evaluated |-> r.evaluated,
             keys |-> IF r.fired = 0 THEN <<>>
                      ELSE rotation.rules[r.fired].keys_to_press,
             recorded |-> ~r.raised, cache |-> snap.cache]

\* The body of "for hwnd, rotation in active_clients.items()" for one due
\* client, img being what its memory holds at the poll:
\* [state, raised, fired, evaluated, keys, recorded, cache]
ClientTick(rotation, readers, hwnd, img, names) ==
    LET snap == ReadStats(readers, hwnd, img) IN
    IF ~snap.some
    THEN [state |-> "no_snapshot", raised |-> FALSE, fired |-> 0,
          evaluated |-> <<>>, keys |-> <<>>, recorded |-> FALSE,
          cache |-> snap.cache]
    ELSE LET r == RunRules(rotation.rules, snap.stats, names, 1,
                      [raised |-> FALSE, fired |-> 0, evaluated |-> <<>>])
         IN [state |-> IF r.raised THEN "raised" ELSE "evaluated",
             raised |-> r.raised, fired |-> r.fired,
             evaluated |-> r.evaluated,
             keys |-> IF r.fired = 0 THEN <<>>
                      ELSE rotation.rules[r.fired].keys_to_press,
             recorded |-> r.fired # 0, cache |-> snap.cache]

\* the dictionaries of readers of a client (its handle written 1): no
\* reader, a reader that has not resolved the object manager, and one that
\* holds the base it resolved
ReaderStates ==
    [none |-> <<>>, fresh |-> <<0>>, cached |-> <<Healthy.base.v>>]

\* ClientTick for every rotation, state of the reader and image
TickTable ==
    Tabulated([name \in DOMAIN Rotations |->
        Tabulated([reader \in DOMAIN ReaderStates |->
            Tabulated([img \in DOMAIN SchedImages |->
                ClientTick(Rotations[name], ReaderStates[reader], 1, img,
                           CharacterNames)])])])

\* the entry of TickTable for the client hwnd
TickOf(rotation_name, readers, hwnd, img) ==
    TickTable[rotation_name][IF hwnd \notin DOMAIN readers THEN "none"
                             ELSE IF readers[hwnd] = 0 THEN "fresh"
                             ELSE "cached"][img]

RECURSIVE SortedSeq(_)
\* the elements of a set of numbers in ascending order
SortedSeq(S) ==
    IF S = {} THEN <<>>
    ELSE LET m == CHOOSE x \in S : \A y \in S : x <= y
         IN <<m>> \o SortedSeq(S \ {m})

RECURSIVE ActiveClients_NoWindowTest(_, _, _, _)
\* the scan without its "if not win32gui.IsWindow(hwnd): continue"
ActiveClients_NoWindowTest(slots, ph, assigned, alive) ==
    IF slots = <<>> THEN <<>>
    ELSE LET s == Head(slots)
             rest == ActiveClients_NoWindowTest(Tail(slots), ph, assigned, alive)
         IN IF assigned[s] # "" /\ assigned[s] \in DOMAIN Rotations
            THEN <<[hwnd |-> ph[s], rotation |-> assigned[s]]>> \o rest
            ELSE rest

RECURSIVE ActiveClients(_, _, _, _)
\* the scan of self.proc_hwnd.items() that builds active_clients, as the
\* sequence of its (hwnd, rotation name) items; slots is the sequence of the
\* keys of proc_hwnd (_thread_start_set inserts them in sorted order)
ActiveClients(slots, ph, assigned, alive) ==
    IF slots = <<>> THEN <<>>
    ELSE LET s == Head(slots)
             rest == ActiveClients(Tail(slots), ph, assigned, alive)
         IN IF ph[s] \notin alive THEN rest
            ELSE IF assigned[s] # "" /\ assigned[s] \in DOMAIN Rotations
                 THEN <<[hwnd |-> ph[s], rotation |-> assigned[s]]>> \o rest
            ELSE rest

\* --------------------------------------------------------------------------
\* The controller and the rotation engine: state
\* --------------------------------------------------------------------------

\* the engine threads (and their Event objects) one behaviour may create
MaxThreads == 2

Threads == 1..MaxThreads

\* cs.slots of the character set that is started
CsSlots == <<1, 2>>

\* what the engine did with the client it has just processed
NoLog ==
    [state |-> "none", hwnd |-> 0, rot |-> "", img |-> "", has_reader |-> FALSE,
     cache0 |-> 0, fired |-> 0, evaluated |-> <<>>, posts |-> <<>>,
     recorded |-> FALSE, gap |-> -1]

\* used is the size of proc_hwnd when the iterator of the scan was made
\* (-1 outside the scan)
NoThread ==
    [pc |-> "none", map |-> <<>>, used |-> -1, active |-> <<>>, i |-> 0,
     log |-> NoLog, tick_after_stop |-> FALSE]

\* is_alive() taking every thread for one that has ended
IsAlive_Never(thread) == FALSE

\* threading.Thread.is_alive(): started and inside _thread_rotation_engine
IsAlive(thread) ==
    thread.pc \in {"begin", "top", "scan", "clients", "wait", "exit"}

\* the assignments of rotations to the slots a behaviour starts with; "gone"
\* names a rotation that was deleted
Assignments ==
    {<<"heal", "spam">>, <<"assist", "heal">>, <<"broken", "heal">>,
     <<"heal", "">>, <<"spam", "gone">>}

\* refresh_clients: [hwnds, main_hwnd]; enum_windows_by_title lists the
\* windows that exist in ascending order
RefreshClients(running, ph, alive, main) ==
    LET managed == IF running
                   THEN SelectSeq(SlotWindows(CsSlots, ph), LAMBDA h : h \in alive)
                   ELSE <<>>
        unmanaged == SortedSeq(alive \ {managed[k] : k \in DOMAIN managed})
        listed == managed \o unmanaged
        hw == IF main \in {listed[k] : k \in DOMAIN listed}
              THEN <<main>> \o SelectSeq(listed, LAMBDA h : h # main)
              ELSE listed
    IN [hwnds |-> hw,
        main_hwnd |-> IF hw # <<>> /\ (main = 0 \/ main \notin {hw[k] : k \in DOMAIN hw})
                      THEN hw[1]
                      ELSE IF hw = <<>> THEN 0 ELSE main]

\* the hotkey thread outside toggle_rotation_engine; status is the message
\* its last call gave to status_changed ("" = none)
HkIdle(status) == [pc |-> "idle", status |-> status]

SchedIdle ==
    /\ running_set = FALSE
    /\ memory_readers = <<>>
    /\ cfg_assigned = <<"", "">>
    /\ window_alive = {}
    /\ engine_thread = 0
    /\ stop_event_ref = 0
    /\ event_set = {}
    /\ th = [t \in Threads |-> NoThread]
    /\ hk = HkIdle("")
    /\ gui = [pc |-> "idle", then_stop_set |-> FALSE]
    /\ stop_thread = FALSE
    /\ errors = {}
    /\ since_fire = [h \in Hwnds |-> -1]

\* the controller after __init__, for each configuration
SchedInit ==
    /\ running_set = FALSE
    /\ memory_readers = <<>>
    /\ cfg_assigned \in Assignments
    /\ window_alive = {}
    /\ engine_thread = 0
    /\ stop_event_ref = 0
    /\ event_set = {}
    /\ th = [t \in Threads |-> NoThread]
    /\ hk = HkIdle("")
    /\ gui = [pc |-> "idle", then_stop_set |-> FALSE]
    /\ stop_thread = FALSE
    /\ errors = {}
    /\ since_fire = [h \in Hwnds |-> -1]
    /\ hwnds = <<>>
    /\ main_hwnd = 0
    /\ proc_hwnd = <<>>

\* --------------------------------------------------------------------------
\* The set of clients: start_set, stop_set, the windows
\* --------------------------------------------------------------------------

\* What can become of the launch of the slots of the set: launched are the
\* slots whose process starts, found those whose window shows up in time,
\* attached those a MemoryReader attaches to.
StartOutcomes ==
    {[launched |-> {}, found |-> {}, attached |-> {}],
     [launched |-> Slots, found |-> {}, attached |-> {}],
     [launched |-> Slots, found |-> {1}, attached |-> {1}],
     [launched |-> Slots, found |-> Slots, attached |-> {2}],
     [launched |-> Slots, found |-> Slots, attached |-> Slots]}

\* start_set and the BC-StartSet thread it spawns
StartSet ==
    /\ gui.pc = "idle"
    /\ ~stop_thread
    /\ ~running_set
    /\ \E o \in StartOutcomes :
         LET ph == [s \in o.found |-> HwndOf(s)]
             alive == window_alive \cup {HwndOf(s) : s \in o.found}
             r == RefreshClients(TRUE, ph, alive, main_hwnd)
         IN /\ proc_hwnd' = ph
            /\ memory_readers' = [h \in {HwndOf(s) : s \in o.attached} |-> 0]
            /\ window_alive' = alive
            /\ UNCHANGED cfg_assigned
            /\ IF o.launched = {}
               THEN UNCHANGED <<running_set, windowVars>>
               ELSE /\ running_set' = TRUE
                    /\ hwnds' = r.hwnds
                    /\ main_hwnd' = IF r.hwnds # <<>> THEN r.hwnds[1]
                                    ELSE r.main_hwnd
    /\ UNCHANGED <<engineVars, callerVars, obsVars>>

\* the end of stop_all_rotations in the GUI thread; stop_set goes on to
\* spawn the BC-StopSet thread
GuiDone == [pc |-> "idle", then_stop_set |-> FALSE]

\* the button "stop all rotations": stop_all_rotations, first read of
\* self._rotation_engine_thread
GuiStopAll ==
    /\ gui.pc = "idle"
    /\ gui' = IF engine_thread = 0 THEN GuiDone
              ELSE [pc |-> "alive", then_stop_set |-> FALSE]
    /\ UNCHANGED <<windowVars, proc_hwnd, setVars, engineVars, hk, stop_thread,
                   obsVars>>

\* stop_set up to the first read of stop_all_rotations
GuiStopSet ==
    /\ gui.pc = "idle"
    /\ ~stop_thread
    /\ running_set
    /\ IF engine_thread = 0
       THEN /\ stop_thread' = TRUE
            /\ UNCHANGED gui
       ELSE /\ gui' = [pc |-> "alive", then_stop_set |-> TRUE]
            /\ UNCHANGED stop_thread
    /\ UNCHANGED <<windowVars, proc_hwnd, setVars, engineVars, hk, obsVars>>

\* stop_all_rotations, "self._rotation_engine_thread.is_alive()": the
\* attribute is read again
GuiAlive ==
    /\ gui.pc = "alive"
    /\ IF engine_thread = 0
       THEN /\ errors' = errors \cup {"AttributeError"}
            /\ gui' = GuiDone
            /\ UNCHANGED stop_thread
       ELSE IF IsAlive(th[engine_thread])
       THEN /\ gui' = [gui EXCEPT !.pc = "set"]
            /\ UNCHANGED <<errors, stop_thread>>
       ELSE /\ gui' = GuiDone
            /\ stop_thread' = (stop_thread \/ gui.then_stop_set)
            /\ UNCHANGED errors
    /\ UNCHANGED <<windowVars, proc_hwnd, setVars, engineVars, hk, since_fire>>

\* stop_all_rotations, "self._rotation_stop_event.set()"
GuiSet ==
    /\ gui.pc = "set"
    /\ event_set' = event_set \cup {stop_event_ref}
    /\ gui' = GuiDone
    /\ stop_thread' = (stop_thread \/ gui.then_stop_set)
    /\ UNCHANGED <<windowVars, proc_hwnd, setVars, engine_thread, stop_event_ref,
                   th, hk, obsVars>>

\* _thread_stop_set: the processes are ended and their windows go
StopSetThread ==
    /\ stop_thread
    /\ LET alive == window_alive \ {proc_hwnd[s] : s \in DOMAIN proc_hwnd}
           r == RefreshClients(FALSE, <<>>, alive, main_hwnd)
       IN /\ window_alive' = alive
          /\ hwnds' = r.hwnds
          /\ main_hwnd' = r.main_hwnd
    /\ proc_hwnd' = <<>>
    /\ memory_readers' = <<>>
    /\ running_set' = FALSE
    /\ stop_thread' = FALSE
    /\ UNCHANGED <<cfg_assigned, engineVars, hk, gui, obsVars>>

\* _check_running_set_health, run by the timer of the GUI thread, when every
\* process of the set has exited (a process that has exited has no window):
\* _perform_soft_stop
SoftStop ==
    /\ gui.pc = "idle"
    /\ running_set
    /\ \A s \in DOMAIN proc_hwnd : proc_hwnd[s] \notin window_alive
    /\ LET r == RefreshClients(FALSE, <<>>, window_alive, main_hwnd)
       IN /\ hwnds' = r.hwnds
          /\ main_hwnd' = r.main_hwnd
    /\ proc_hwnd' = <<>>
    /\ memory_readers' = <<>>
    /\ running_set' = FALSE
    /\ UNCHANGED <<cfg_assigned, window_alive, engineVars, callerVars, obsVars>>

\* what the slot editor can leave in assigned_rotation: None, a rotation,
\* or the name of a rotation that has been removed since
EditValues == {"", "spam", "gone"}

\* SlotEditor.accept on the slot object cfg.slots holds (the rotation combo
\* box), or the removal of the rotation a slot names
EditSlot(s, rotation_name) ==
    /\ gui.pc = "idle"
    /\ cfg_assigned[s] # rotation_name
    /\ cfg_assigned' = [cfg_assigned EXCEPT ![s] = rotation_name]
    /\ UNCHANGED <<windowVars, proc_hwnd, running_set, memory_readers,
                   window_alive, engineVars, callerVars, obsVars>>

\* a client window is closed: win32gui.IsWindow no longer holds of it
WindowCloses(h) ==
    /\ h \in window_alive
    /\ window_alive' = window_alive \ {h}
    /\ UNCHANGED <<windowVars, proc_hwnd, running_set, memory_readers,
                   cfg_assigned, engineVars, callerVars, obsVars>>

\* --------------------------------------------------------------------------
\* toggle_rotation_engine, run by the hotkey thread
\* --------------------------------------------------------------------------

\* "if not self.running_set: ... return" lets the start go on
CanStart_Always(running) == TRUE

CanStart(running) == running

\* the hotkey is pressed: first read of self._rotation_engine_thread
HkToggle ==
    /\ hk.pc = "idle"
    /\ hk' = [pc |-> IF engine_thread = 0 THEN "else" ELSE "alive", status |-> ""]
    /\ UNCHANGED <<windowVars, proc_hwnd, setVars, engineVars, gui, stop_thread,
                   obsVars>>

\* "self._rotation_engine_thread.is_alive()": the attribute is read again
HkAlive ==
    /\ hk.pc = "alive"
    /\ IF engine_thread = 0
       THEN /\ errors' = errors \cup {"AttributeError"}
            /\ hk' = HkIdle("")
       ELSE /\ hk' = [hk EXCEPT
                  !.pc = IF IsAlive(th[engine_thread]) THEN "set" ELSE "else"]
            /\ UNCHANGED errors
    /\ UNCHANGED <<windowVars, proc_hwnd, setVars, engineVars, gui, stop_thread,
                   since_fire>>

\* "self._rotation_stop_event.set()"
HkSet ==
    /\ hk.pc = "set"
    /\ event_set' = event_set \cup {stop_event_ref}
    /\ hk' = HkIdle("")
    /\ UNCHANGED <<windowVars, proc_hwnd, setVars, engine_thread, stop_event_ref,
                   th, gui, stop_thread, obsVars>>

\* the else branch up to "self._rotation_stop_event = threading.Event()"
HkElse ==
    /\ hk.pc = "else"
    /\ IF ~CanStart(running_set)
       THEN /\ hk' = HkIdle("Cannot start rotation engine: No set is running.")
            /\ UNCHANGED stop_event_ref
       ELSE /\ stop_event_ref < MaxThreads
            /\ stop_event_ref' = stop_event_ref + 1
            /\ hk' = [hk EXCEPT !.pc = "start"]
    /\ UNCHANGED <<windowVars, proc_hwnd, setVars, engine_thread, event_set, th,
                   gui, stop_thread, obsVars>>

\* the thread is made with the event the attribute holds, and started
HkStartThread ==
    /\ hk.pc = "start"
    /\ engine_thread' = stop_event_ref
    /\ th' = [th EXCEPT ![stop_event_ref] = [NoThread EXCEPT !.pc = "begin"]]
    /\ hk' = HkIdle("")
    /\ UNCHANGED <<windowVars, proc_hwnd, setVars, stop_event_ref, event_set,
                   gui, stop_thread, obsVars>>

\* --------------------------------------------------------------------------
\* _thread_rotation_engine
\* --------------------------------------------------------------------------

\* time d goes by for the last-fire times a thread holds
AgeMap(map, d) == [h \in DOMAIN map |-> AgeAdd(map[h], d)]

AgeSince(since, d) ==
    [h \in Hwnds |-> IF since[h] = -1 THEN -1 ELSE AgeAdd(since[h], d)]

\* the condition of "while not stop_event.is_set()"
ContinueLoop(is_set) == ~is_set

\* the thread starts to run: the lines before the loop
EngineBegin(t) ==
    /\ th[t].pc = "begin"
    /\ th' = [th EXCEPT ![t].pc = "top", ![t].map = <<>>]
    /\ since_fire' = [h \in Hwnds |-> -1]
    /\ UNCHANGED <<windowVars, proc_hwnd, setVars, engine_thread, stop_event_ref,
                   event_set, callerVars, errors>>

\* the top of a tick: the while condition, and "self.proc_hwnd.items()" of
\* the scan for active clients, whose iterator notes the size of the dict
EngineTick(t) ==
    /\ th[t].pc = "top"
    /\ IF ~ContinueLoop(t \in event_set)
       THEN th' = [th EXCEPT ![t].pc = "exit"]
       ELSE th' = [th EXCEPT
                   ![t].pc = "scan",
                   ![t].used = Cardinality(DOMAIN proc_hwnd),
                   ![t].tick_after_stop = (@ \/ t \in event_set)]
    /\ UNCHANGED <<windowVars, proc_hwnd, setVars, engine_thread, stop_event_ref,
                   event_set, callerVars, obsVars>>

\* the scan of proc_hwnd: the for loop of lines 1199-1205.  The dict
\* iterator raises RuntimeError ("dictionary changed size during iteration")
\* when another thread cleared or filled proc_hwnd since the iterator was
\* made; nothing in the thread catches it.
EngineScan(t) ==
    /\ th[t].pc = "scan"
    /\ IF Cardinality(DOMAIN proc_hwnd) # th[t].used
       THEN /\ th' = [th EXCEPT ![t].pc = "crashed",
                                ![t].map = <<>>,
                                ![t].used = -1]
            /\ errors' = errors \cup {"RuntimeError"}
       ELSE /\ LET active == ActiveClients(SortedSeq(DOMAIN proc_hwnd), proc_hwnd,
                                           cfg_assigned, window_alive)
               IN th' = [th EXCEPT
                      ![t].pc = IF active = <<>> THEN "wait" ELSE "clients",
                      ![t].used = -1,
                      ![t].active = active,
                      ![t].i = 1]
            /\ UNCHANGED errors
    /\ UNCHANGED <<windowVars, proc_hwnd, setVars, engine_thread, stop_event_ref,
                   event_set, callerVars, since_fire>>

\* one pass of "for hwnd, rotation in active_clients.items()"; a key takes
\* 0.1 s (two sleeps of 0.05 s)
EngineClient(t) ==
    /\ th[t].pc = "clients"
    /\ LET c == th[t].active[th[t].i]
           hwnd == c.hwnd
           rotation == Rotations[c.rotation]
           has_reader == hwnd \in DOMAIN memory_readers
           pc_after == IF th[t].i = Len(th[t].active) THEN "wait" ELSE "clients"
       IN IF ~Due(Elapsed(th[t].map, hwnd), rotation.loop_interval)
          THEN /\ th' = [th EXCEPT
                     ![t].pc = pc_after,
                     ![t].i = @ + 1,
                     ![t].log = [NoLog EXCEPT !.state = "not_due",
                                              !.hwnd = hwnd,
                                              !.rot = c.rotation]]
               /\ UNCHANGED <<memory_readers, errors, since_fire>>
          ELSE \E img \in IF has_reader THEN DOMAIN SchedImages ELSE {"low"} :
               \E r \in {TickOf(c.rotation, memory_readers, hwnd, img)} :
               \E log \in
                   {[state |-> r.state, hwnd |-> hwnd, rot |-> c.rotation,
                     img |-> img, has_reader |-> has_reader,
                     cache0 |-> IF has_reader THEN memory_readers[hwnd] ELSE 0,
                     fired |-> r.fired, evaluated |-> r.evaluated,
                     posts |-> KeyPosts(hwnd, r.keys),
                     recorded |-> r.recorded,
                     gap |-> IF r.fired # 0 THEN since_fire[hwnd] ELSE -1]} :
               LET d == Len(r.keys)
                   aged == AgeMap(th[t].map, d)
               IN /\ memory_readers' =
                        IF has_reader
                        THEN [memory_readers EXCEPT ![hwnd] = r.cache]
                        ELSE memory_readers
                  /\ IF r.raised
                     THEN /\ th' = [th EXCEPT ![t].pc = "crashed",
                                              ![t].map = <<>>,
                                              ![t].active = <<>>,
                                              ![t].i = 0,
                                              ![t].log = log]
                          /\ errors' = errors \cup {"TypeError"}
                          /\ UNCHANGED since_fire
                     ELSE /\ th' = [th EXCEPT
                                ![t].pc = pc_after,
                                ![t].i = @ + 1,
                                ![t].map = IF r.recorded
                                           THEN [h \in DOMAIN aged \cup {hwnd} |->
                                                   IF h = hwnd THEN 0 ELSE aged[h]]
                                           ELSE aged,
                                ![t].log = log]
                          /\ since_fire' =
                               IF r.fired # 0
                               THEN [AgeSince(since_fire, d) EXCEPT ![hwnd] = d]
                               ELSE AgeSince(since_fire, d)
                          /\ UNCHANGED errors
    /\ UNCHANGED <<windowVars, proc_hwnd, running_set, cfg_assigned, window_alive,
                   engine_thread, stop_event_ref, event_set, callerVars>>

\* "if stop_event.wait(0.1): break"
EngineWait(t) ==
    /\ th[t].pc = "wait"
    /\ IF t \in event_set
       THEN /\ th' = [th EXCEPT ![t].pc = "exit", ![t].log = NoLog,
                                ![t].active = <<>>, ![t].i = 0]
            /\ UNCHANGED since_fire
       ELSE /\ th' = [th EXCEPT ![t].pc = "top", ![t].map = AgeMap(@, 1),
                                ![t].log = NoLog, ![t].active = <<>>, ![t].i = 0]
            /\ since_fire' = AgeSince(since_fire, 1)
    /\ UNCHANGED <<windowVars, proc_hwnd, setVars, engine_thread, stop_event_ref,
                   event_set, callerVars, errors>>

\* the lines after the loop
EngineExit(t) ==
    /\ th[t].pc = "exit"
    /\ engine_thread' = 0
    /\ th' = [th EXCEPT ![t] = [NoThread EXCEPT
                                   !.pc = "stopped",
                                   !.tick_after_stop = th[t].tick_after_stop]]
    /\ since_fire' = [h \in Hwnds |-> -1]
    /\ UNCHANGED <<windowVars, proc_hwnd, setVars, stop_event_ref, event_set,
                   callerVars, errors>>

\* the engine thread is held up for 0.1 s wherever it is in a tick
TimePasses(t) ==
    /\ th[t].pc \in {"top", "scan", "clients", "wait"}
    /\ \/ AgeMap(th[t].map, 1) # th[t].map
       \/ AgeSince(since_fire, 1) # since_fire
    /\ th' = [th EXCEPT ![t].map = AgeMap(@, 1)]
    /\ since_fire' = AgeSince(since_fire, 1)
    /\ UNCHANGED <<windowVars, proc_hwnd, setVars, engine_thread, stop_event_ref,
                   event_set, callerVars, errors>>

\* --------------------------------------------------------------------------
\* SpecPost: the posts of synthetic messages
\* --------------------------------------------------------------------------

\* the threads that call _broadcast_key_event, _broadcast_char_event or
\* _broadcast_click: the rotation engine, the input listener (keyboard and
\* mouse hooks) and a macro worker
Broadcasters == {"engine", "listener", "macro"}

\* the threads _broadcast_click starts, at most this many at a time
ClickWorkers == {"click1", "click2"}

\* what each broadcaster can send: the engine sends keys only (lines 1221
\* and 1223), the listener keys and clicks, a macro all three
KindsOf(p) ==
    IF p = "engine" THEN {"key"}
    ELSE IF p = "listener" THEN {"key", "click"}
    ELSE {"key", "char", "click"}

\* a thread outside every broadcast
NoPost == [pc |-> "idle", kind |-> "", targets |-> <<>>]

PostIdle ==
    /\ lock_owner = ""
    /\ poster = [p \in Broadcasters \cup ClickWorkers |-> NoPost]

\* the target lists a broadcast is called with
TargetLists == {<<HwndOf(1)>>, <<HwndOf(1), HwndOf(2)>>}

\* a broadcaster calls _broadcast_key_event or _broadcast_char_event and
\* arrives at "with self._broadcast_lock"
CallBroadcast(p) ==
    /\ poster[p].pc = "idle"
    /\ \E kind \in KindsOf(p) \ {"click"}, targets \in TargetLists :
         poster' = [poster EXCEPT
                       ![p] = [pc |-> "with", kind |-> kind, targets |-> targets]]
    /\ UNCHANGED lock_owner

\* the RLock is acquired: it is free, or held by the caller itself
AcquireLock(p) ==
    /\ poster[p].pc = "with"
    /\ lock_owner \in {"", p}
    /\ lock_owner' = p
    /\ poster' = [poster EXCEPT ![p].pc = "for"]

\* "for hwnd in targets": the next target's message is about to be posted,
\* the thread is inside win32gui.PostMessage
EnterPost(p) ==
    /\ poster[p].pc = "for"
    /\ poster[p].targets # <<>>
    /\ poster' = [poster EXCEPT ![p].pc = "in_post"]
    /\ UNCHANGED lock_owner

\* PostMessage returns
LeavePost(p) ==
    /\ poster[p].pc = "in_post"
    /\ poster' = [poster EXCEPT ![p].pc = "for", ![p].targets = Tail(@)]
    /\ UNCHANGED lock_owner

\* the end of the with block
ReleaseLock(p) ==
    /\ poster[p].pc = "for"
    /\ poster[p].targets = <<>>
    /\ lock_owner' = ""
    /\ poster' = [poster EXCEPT ![p] = NoPost]

\* _broadcast_click: one thread per target runs _post_mouse_click; the
\* caller joins each for 0.02 s at most and goes on
BroadcastClick(p) ==
    /\ poster[p].pc = "idle"
    /\ "click" \in KindsOf(p)
    /\ \E targets \in TargetLists :
       \E w \in [1..Len(targets) -> ClickWorkers] :
         /\ \A i, j \in 1..Len(targets) : i # j => w[i] # w[j]
         /\ \A i \in 1..Len(targets) : poster[w[i]].pc = "idle"
         /\ poster' = [q \in DOMAIN poster |->
                         IF \E i \in 1..Len(targets) : w[i] = q
                         THEN [pc |-> "start", kind |-> "click",
                               targets |-> <<targets[CHOOSE i \in 1..Len(targets) : w[i] = q]>>]
                         ELSE poster[q]]
    /\ UNCHANGED lock_owner

\* _post_mouse_click: the thread enters PostMessage for the button-down
\* message, then for the button-up message
ClickEnter(w) ==
    /\ poster[w].pc \in {"start", "down_posted"}
    /\ poster' = [poster EXCEPT
                     ![w].pc = "in_post",
                     ![w].kind = IF poster[w].pc = "start" THEN "down" ELSE "up"]
    /\ UNCHANGED lock_owner

\* PostMessage returns to _post_mouse_click; after the second message the
\* thread ends
ClickLeave(w) ==
    /\ poster[w].pc = "in_post"
    /\ poster' = [poster EXCEPT
                     ![w] = IF poster[w].kind = "down"
                            THEN [@ EXCEPT !.pc = "down_posted"]
                            ELSE NoPost]
    /\ UNCHANGED lock_owner

\* --------------------------------------------------------------------------
\* SpecToggle: the hotkey's toggles and the engine, with a set running
\* --------------------------------------------------------------------------

ToggleIdle ==
    /\ tg_last = ""
    /\ tg_since = [h \in Hwnds |-> -1]

\* how a call of toggle_rotation_engine that returns from position pc ended:
\* it set the stop event, started a thread, returned with the status
\* message, or raised in its test of the thread
ToggleOutcome(pc) ==
    IF pc = "set" THEN "stop"
    ELSE IF pc = "start" THEN "start"
    ELSE IF pc = "else" THEN "refused"
    ELSE "error"

\* the time the key sequence of the rule a client fired takes (a down and an
\* up with a sleep of 0.05 s each per key), 0 when no rule fired
KeysTime(log) ==
    IF log.fired = 0 THEN 0
    ELSE Len(Rotations[log.rot].rules[log.fired].keys_to_press)

\* the observer's record of a step that takes time dt
Observe(dt) ==
    /\ tg_last' = IF hk.pc # "idle" /\ hk'.pc = "idle"
                  THEN ToggleOutcome(hk.pc) ELSE tg_last
    /\ tg_since' = [h \in Hwnds |->
                      IF since_fire'[h] # -1 THEN since_fire'[h]
                      ELSE IF tg_since[h] = -1 THEN -1
                      ELSE AgeAdd(tg_since[h], dt)]

\* --------------------------------------------------------------------------
\* SpecRace: run_macro called while a run of the same macro is in progress
\* --------------------------------------------------------------------------

\* the BC-Macro threads that can be inside _run_macro_body at a time
Workers == {"w1", "w2"}

\* a thread outside _run_macro_body
NoRun == [pc |-> "idle", name |-> "", idx |-> 0, index |-> 0]

RaceIdle == worker = [w \in Workers |-> NoRun]

\* the main window with one and with three others
RaceInit ==
    /\ hwnds \in {<<101, 102>>, <<101, 102, 103, 104>>}
    /\ main_hwnd = hwnds[1]
    /\ proc_hwnd = [s \in Slots |-> HwndOf(s)]
    /\ rr_index = [name \in MacroNames |-> 0]
    /\ rr_state = <<>>
    /\ mac_log = [name \in MacroNames |-> <<>>]
    /\ worker = [w \in Workers |-> NoRun]

\* run_macro starts the thread, which calls _targets_for; without targets
\* it returns, and it goes on to the steps when the policy is not
\* round_robin
RaceTargets(w, name) ==
    /\ worker[w].pc = "idle"
    /\ SumLen(mac_log, MacroNames)
         + Cardinality({v \in Workers : worker[v].pc \in {"pick", "load"}}) < MaxRuns
    /\ LET t == TargetsFor(Macros[name].target, Macros[name].slots, hwnds,
                           main_hwnd, proc_hwnd, rr_state)
       IN /\ rr_state' = t.rr_state
          /\ IF t.ret = <<>>
             THEN UNCHANGED <<worker, mac_log>>
             ELSE IF Macros[name].target # "round_robin"
             THEN /\ mac_log' = [mac_log EXCEPT ![name] = Append(@, t.ret)]
                  /\ UNCHANGED worker
             ELSE /\ worker' = [worker EXCEPT ![w] = [NoRun EXCEPT !.pc = "pick",
                                                                   !.name = name]]
                  /\ UNCHANGED mac_log
    /\ UNCHANGED <<hwnds, main_hwnd, proc_hwnd, rr_index>>

\* "idx = m.rr_index % len(arr); targets = [arr[idx]]"
RacePick(w) ==
    /\ worker[w].pc = "pick"
    /\ LET arr == RoundRobinArr(hwnds, main_hwnd)
           idx == rr_index[worker[w].name] % Len(arr)
       IN /\ worker' = [worker EXCEPT ![w].pc = "load", ![w].idx = idx]
          /\ mac_log' = [mac_log EXCEPT ![worker[w].name] = Append(@, <<arr[idx + 1]>>)]
    /\ UNCHANGED <<hwnds, main_hwnd, proc_hwnd, rr_index, rr_state>>

\* the right-hand side of "m.rr_index = (m.rr_index + 1) % len(arr)" reads
\* the attribute, then calls len
RaceLoad(w) ==
    /\ worker[w].pc = "load"
    /\ worker' = [worker EXCEPT ![w].pc = "store",
                                ![w].index = rr_index[worker[w].name]]
    /\ UNCHANGED <<hwnds, main_hwnd, proc_hwnd, macroVars>>

\* the attribute is stored; the steps of the macro follow
RaceStore(w) ==
    /\ worker[w].pc = "store"
    /\ rr_index' = [rr_index EXCEPT ![worker[w].name] =
                       (worker[w].index + 1) % Len(RoundRobinArr(hwnds, main_hwnd))]
    /\ worker' = [worker EXCEPT ![w] = NoRun]
    /\ UNCHANGED <<hwnds, main_hwnd, proc_hwnd, rr_state, mac_log>>

\* --------------------------------------------------------------------------
\* SpecKeys: the input listener's on_key
\* --------------------------------------------------------------------------

\* the key names the listener receives here: "1", "f" and "alt"
KeyLowerF == <<102>>
KeyAlt == <<97, 108, 116>>
ListenerKeys == {KeyOne, KeyLowerF, KeyAlt}

\* the names of MODIFIER_KEYS among them
MODIFIER_KEYS == {KeyAlt}

\* keymap.whitelist, by default the digits 1 to 9
Whitelist == {KeyOne, KeyTwo, KeyThree}

\* keymap.auto_assist_prefix_keys
PrefixKeys == <<KeyLowerF>>

\* a window of another application
OtherWindow == 900

\* _broadcast_key_event(key, targets, event_type): the messages posted
RECURSIVE BroadcastKeyEvent(_, _, _)
BroadcastKeyEvent(key, targets, event_type) ==
    IF targets = <<>> THEN <<>>
    ELSE PostKeyEvent(Head(targets), key, event_type)
         \o BroadcastKeyEvent(key, Tail(targets), event_type)

RECURSIVE PrefixPosts(_, _)
\* the loop over the prefix keys: down, then up, key after key
PrefixPosts(keys, targets) ==
    IF keys = <<>> THEN <<>>
    ELSE BroadcastKeyEvent(Head(keys), targets, "down")
         \o BroadcastKeyEvent(Head(keys), targets, "up")
         \o PrefixPosts(Tail(keys), targets)

\* _is_client_fg()
IsClientFg(cfg, fg, hw) ==
    IF ~cfg.broadcast_only_when_client_focused THEN TRUE
    ELSE \E i \in 1..Len(hw) : hw[i] = fg

\* on_key(e) for e.name = name (lower case) and e.event_type: [held, posts],
\* held the set _broadcast_keys_down after the call; reserved says that a
\* reserved hotkey is pressed
OnKey(name, event_type, cfg, fg, hw, held, reserved) ==
    IF ~IsClientFg(cfg, fg, hw) THEN [held |-> held, posts |-> <<>>]
    ELSE IF name \in held /\ event_type = "down"
    THEN [held |-> held, posts |-> <<>>]
    ELSE
    LET targets == SelectSeq(hw, LAMBDA h : h # fg)
        held2 == IF event_type = "down" THEN held \cup {name}
                 ELSE IF event_type = "up" THEN held \ {name}
                 ELSE held
    IN IF cfg.broadcast_all_keys
       THEN [held |-> held2,
             posts |-> IF name \notin MODIFIER_KEYS
                       THEN BroadcastKeyEvent(name, targets, event_type)
                       ELSE <<>>]
       ELSE IF ~cfg.broadcast_enabled \/ name \in MODIFIER_KEYS \/ reserved
       THEN [held |-> held2, posts |-> <<>>]
       ELSE IF name \in Whitelist /\ targets # <<>>
       THEN IF cfg.auto_assist_enabled /\ event_type = "down"
            THEN [held |-> held2,
                  posts |-> PrefixPosts(PrefixKeys, targets)
                            \o BroadcastKeyEvent(name, targets, "down")
                            \o BroadcastKeyEvent(name, targets, "up")]
            ELSE IF ~cfg.auto_assist_enabled
            THEN [held |-> held2,
                  posts |-> BroadcastKeyEvent(name, targets, event_type)]
            ELSE [held |-> held2, posts |-> <<>>]
       ELSE [held |-> held2, posts |-> <<>>]

RECURSIVE Delivered(_, _)
\* what the posted messages make of the keys the windows hold down
Delivered(state, posts) ==
    IF posts = <<>> THEN state
    ELSE LET p == Head(posts)
         IN Delivered([state EXCEPT ![p.hwnd] =
                          IF p.type = "down" THEN @ \cup {p.vk} ELSE @ \ {p.vk}],
                      Tail(posts))

KeysIdle ==
    /\ kb_cfg = [broadcast_only_when_client_focused |-> TRUE,
                 broadcast_all_keys |-> FALSE, broadcast_enabled |-> TRUE,
                 auto_assist_enabled |-> FALSE]
    /\ fg_hwnd = OtherWindow
    /\ phys_down = {}
    /\ keys_down = {}
    /\ key_state = [h \in Hwnds |-> {}]

\* start_hooks with two client windows, for every setting of the switches
KeysInit ==
    /\ kb_cfg \in [broadcast_only_when_client_focused : BOOLEAN,
                    broadcast_all_keys : BOOLEAN, broadcast_enabled : BOOLEAN,
                    auto_assist_enabled : BOOLEAN]
    /\ fg_hwnd \in Hwnds \cup {OtherWindow}
    /\ phys_down = {}
    /\ keys_down = {}
    /\ key_state = [h \in Hwnds |-> {}]
    /\ hwnds = SortedSeq(Hwnds)
    /\ main_hwnd = HwndOf(1)
    /\ proc_hwnd = [s \in Slots |-> HwndOf(s)]

\* the hook delivers event e to on_key
Listen(name, event_type, reserved) ==
    LET r == OnKey(name, event_type, kb_cfg, fg_hwnd, hwnds, keys_down, reserved)
    IN /\ keys_down' = r.held
       /\ key_state' = Delivered(key_state, r.posts)

\* a key goes down, or is held long enough to repeat
KeyDown(name) ==
    /\ phys_down' = phys_down \cup {name}
    /\ \E reserved \in BOOLEAN : Listen(name, "down", reserved)
    /\ UNCHANGED <<kb_cfg, fg_hwnd, hwnds, main_hwnd, proc_hwnd>>

\* a key that is down is released
KeyUp(name) ==
    /\ name \in phys_down
    /\ phys_down' = phys_down \ {name}
    /\ \E reserved \in BOOLEAN : Listen(name, "up", reserved)
    /\ UNCHANGED <<kb_cfg, fg_hwnd, hwnds, main_hwnd, proc_hwnd>>

\* another window comes to the foreground
FocusChanges(w) ==
    /\ w # fg_hwnd
    /\ fg_hwnd' = w
    /\ UNCHANGED <<kb_cfg, phys_down, keys_down, key_state, hwnds, main_hwnd,
                   proc_hwnd>>

\* --------------------------------------------------------------------------
\* SpecLoop: start_macro_loop, stop_macro_loop and the BC-Loop threads
\* --------------------------------------------------------------------------

\* the BC-Loop threads (and their Events) one behaviour may create
MaxLoops == 3

LoopIds == 1..MaxLoops

NoLoop == [pc |-> "none", i |-> 0]

CbIdle == [pc |-> "idle", ev |-> 0]

LoopIdle ==
    /\ loop_count = 0
    /\ loop_stop = 0
    /\ loop_threads = 0
    /\ loop_set = {}
    /\ lp = [t \in LoopIds |-> NoLoop]
    /\ cb = CbIdle

\* __init__: both registries empty; the macro loops without limit or twice
LoopInit ==
    /\ loop_count \in {0, 2}
    /\ loop_stop = 0
    /\ loop_threads = 0
    /\ loop_set = {}
    /\ lp = [t \in LoopIds |-> NoLoop]
    /\ cb = CbIdle

\* the hotkey of the looping macro is pressed: _cb tests
\* "mm.name in self._loop_stop"
CbTest ==
    /\ cb.pc = "idle"
    /\ cb' = [cb EXCEPT !.pc = IF loop_stop # 0 THEN "stop_get" ELSE "start"]
    /\ UNCHANGED <<loop_count, loop_stop, loop_threads, loop_set, lp>>

\* stop_macro_loop: "ev = self._loop_stop.get(name)"
CbStopGet ==
    /\ cb.pc = "stop_get"
    /\ cb' = IF loop_stop # 0 THEN [pc |-> "stop_set", ev |-> loop_stop] ELSE CbIdle
    /\ UNCHANGED <<loop_count, loop_stop, loop_threads, loop_set, lp>>

\* "if ev: ev.set()"
CbStopSet ==
    /\ cb.pc = "stop_set"
    /\ loop_set' = loop_set \cup {cb.ev}
    /\ cb' = CbIdle
    /\ UNCHANGED <<loop_count, loop_stop, loop_threads, lp>>

\* start_macro_loop up to "self._loop_stop[m.name] = stop_evt"; a name that
\* has an entry starts nothing
CbStartPut ==
    /\ cb.pc = "start"
    /\ IF loop_stop # 0
       THEN /\ cb' = CbIdle
            /\ UNCHANGED loop_stop
       ELSE /\ \E t \in LoopIds :
                 /\ lp[t].pc = "none"
                 /\ \A u \in LoopIds : u < t => lp[u].pc # "none"
                 /\ loop_stop' = t
                 /\ cb' = [pc |-> "start_thread", ev |-> t]
    /\ UNCHANGED <<loop_count, loop_threads, loop_set, lp>>

\* "self._loop_threads[m.name] = th; th.start()"
CbStartThread ==
    /\ cb.pc = "start_thread"
    /\ loop_threads' = cb.ev
    /\ lp' = [lp EXCEPT ![cb.ev] = [pc |-> "while", i |-> 0]]
    /\ cb' = CbIdle
    /\ UNCHANGED <<loop_count, loop_stop, loop_set>>

\* stop_all_loops, called by the GUI
StopAllLoops ==
    /\ loop_stop # 0
    /\ loop_stop \notin loop_set
    /\ loop_set' = loop_set \cup {loop_stop}
    /\ UNCHANGED <<loop_count, loop_stop, loop_threads, lp, cb>>

\* "while not stop_evt.is_set()"
LoopWhile(t) ==
    /\ lp[t].pc = "while"
    /\ lp' = [lp EXCEPT ![t].pc = IF t \in loop_set THEN "pop_stop" ELSE "run"]
    /\ UNCHANGED <<loop_count, loop_stop, loop_threads, loop_set, cb>>

\* "self.run_macro(m); i += 1" and the test of the limit; without a limit
\* the value of i has no effect and is left at 0
LoopRun(t) ==
    /\ lp[t].pc = "run"
    /\ LET i == IF loop_count = 0 THEN 0 ELSE lp[t].i + 1
       IN lp' = [lp EXCEPT ![t].i = i,
                           ![t].pc = IF loop_count # 0 /\ i >= loop_count
                                     THEN "pop_stop" ELSE "wait"]
    /\ UNCHANGED <<loop_count, loop_stop, loop_threads, loop_set, cb>>

\* "if stop_evt.wait(max(0.0, m.loop_interval)): break"
LoopWait(t) ==
    /\ lp[t].pc = "wait"
    /\ lp' = [lp EXCEPT ![t].pc = IF t \in loop_set THEN "pop_stop" ELSE "while"]
    /\ UNCHANGED <<loop_count, loop_stop, loop_threads, loop_set, cb>>

\* "self._loop_stop.pop(m.name, None)"
LoopPopStop(t) ==
    /\ lp[t].pc = "pop_stop"
    /\ loop_stop' = 0
    /\ lp' = [lp EXCEPT ![t].pc = "pop_thread"]
    /\ UNCHANGED <<loop_count, loop_threads, loop_set, cb>>

\* "self._loop_threads.pop(m.name, None)", then the thread ends
LoopPopThread(t) ==
    /\ lp[t].pc = "pop_thread"
    /\ loop_threads' = 0
    /\ lp' = [lp EXCEPT ![t].pc = "done"]
    /\ UNCHANGED <<loop_count, loop_stop, loop_set, cb>>

\* the added components at rest
ExtraIdle == BaseIdle /\ ToggleIdle /\ RaceIdle /\ KeysIdle /\ LoopIdle

\* --------------------------------------------------------------------------
\* Specifications
\* --------------------------------------------------------------------------

EngineStep ==
    \E t \in Threads :
        \/ EngineBegin(t)
        \/ EngineTick(t)
        \/ EngineScan(t)
        \/ EngineClient(t)
        \/ EngineWait(t)
        \/ EngineExit(t)

HotkeyStep == HkAlive \/ HkSet \/ HkElse \/ HkStartThread

GuiStep == GuiAlive \/ GuiSet

Init == SchedInit /\ CondIdle /\ LookupIdle /\ MacroIdle /\ SnapIdle /\ PostIdle /\ ExtraIdle

\* Spec: the controller from its construction, with the launch of the set,
\* the hotkey and the engine, over every assignment of rotations
Next ==
    /\ \/ StartSet
       \/ \E h \in Hwnds : WindowCloses(h)
       \/ HkToggle
       \/ HotkeyStep
       \/ EngineStep
       \/ \E t \in Threads : TimePasses(t)
    /\ UNCHANGED callVars

Spec == Init /\ [][Next]_vars

\* SpecLive: the controller with a set running (both windows found, both
\* readers attached), with the hotkey, the GUI's stop actions and the engine
InitLive ==
    /\ CondIdle /\ LookupIdle /\ MacroIdle /\ SnapIdle /\ PostIdle /\ ExtraIdle
    /\ running_set = TRUE
    /\ proc_hwnd = [s \in Slots |-> HwndOf(s)]
    /\ memory_readers = [h \in Hwnds |-> 0]
    /\ cfg_assigned \in {<<"broken", "heal">>, <<"heal", "spam">>}
    /\ window_alive = Hwnds
    /\ hwnds = SortedSeq(Hwnds)
    /\ main_hwnd = HwndOf(1)
    /\ engine_thread = 0
    /\ stop_event_ref = 0
    /\ event_set = {}
    /\ th = [t \in Threads |-> NoThread]
    /\ hk = HkIdle("")
    /\ gui = [pc |-> "idle", then_stop_set |-> FALSE]
    /\ stop_thread = FALSE
    /\ errors = {}
    /\ since_fire = [h \in Hwnds |-> -1]

NextLive ==
    /\ \/ GuiStopAll
       \/ GuiStopSet
       \/ GuiStep
       \/ StopSetThread
       \/ HkToggle
       \/ HotkeyStep
       \/ EngineStep
    /\ UNCHANGED callVars

\* every thread that can take a step of its function takes it in the end
Fairness ==
    /\ WF_vars(EngineStep /\ UNCHANGED callVars)
    /\ WF_vars(HotkeyStep /\ UNCHANGED callVars)
    /\ WF_vars(GuiStep /\ UNCHANGED callVars)
    /\ WF_vars(StopSetThread /\ UNCHANGED callVars)

SpecLive == InitLive /\ [][NextLive]_vars /\ Fairness

InitCond ==
    CondInit /\ LookupIdle /\ WindowsIdle /\ proc_hwnd = <<>> /\ MacroIdle
    /\ SchedIdle /\ SnapIdle /\ PostIdle /\ ExtraIdle

NextCond ==
    Evaluate /\ UNCHANGED <<lookupVars, windowVars, proc_hwnd, macroVars, schedVars,
                            snapVars, postVars, extraVars>>

SpecCond == InitCond /\ [][NextCond]_vars

InitLookup ==
    LookupInit /\ CondIdle /\ WindowsIdle /\ proc_hwnd = <<>> /\ MacroIdle
    /\ SchedIdle /\ SnapIdle /\ PostIdle /\ ExtraIdle

NextLookup ==
    Lookup /\ UNCHANGED <<condVars, windowVars, proc_hwnd, macroVars, schedVars,
                          snapVars, postVars, extraVars>>

SpecLookup == InitLookup /\ [][NextLookup]_vars

\* SpecEdit: a running set whose engine thread has just been started, and
\* whose slots are edited while the engine runs
InitEdit ==
    /\ CondIdle /\ LookupIdle /\ MacroIdle /\ SnapIdle /\ PostIdle /\ ExtraIdle
    /\ running_set = TRUE
    /\ proc_hwnd = [s \in Slots |-> HwndOf(s)]
    /\ memory_readers = [h \in Hwnds |-> 0]
    /\ cfg_assigned = <<"spam", "">>
    /\ window_alive = Hwnds
    /\ hwnds = SortedSeq(Hwnds)
    /\ main_hwnd = HwndOf(1)
    /\ engine_thread = 1
    /\ stop_event_ref = 1
    /\ event_set = {}
    /\ th = [t \in Threads |-> IF t = 1 THEN [NoThread EXCEPT !.pc = "begin"]
                                ELSE NoThread]
    /\ hk = HkIdle("")
    /\ gui = [pc |-> "idle", then_stop_set |-> FALSE]
    /\ stop_thread = FALSE
    /\ errors = {}
    /\ since_fire = [h \in Hwnds |-> -1]

NextEdit ==
    /\ \/ \E s \in Slots, rotation_name \in EditValues : EditSlot(s, rotation_name)
       \/ \E h \in Hwnds : WindowCloses(h)
       \/ HkToggle
       \/ HotkeyStep
       \/ EngineStep
    /\ UNCHANGED callVars

SpecEdit == InitEdit /\ [][NextEdit]_vars

\* SpecToggle: a set runs, both clients have a rotation, the engine has not
\* been started
InitToggle ==
    /\ CondIdle /\ LookupIdle /\ MacroIdle /\ SnapIdle /\ PostIdle /\ ExtraIdle
    /\ running_set = TRUE
    /\ proc_hwnd = [s \in Slots |-> HwndOf(s)]
    /\ memory_readers = [h \in Hwnds |-> 0]
    /\ cfg_assigned \in {<<"heal", "spam">>, <<"assist", "heal">>}
    /\ window_alive = Hwnds
    /\ hwnds = SortedSeq(Hwnds)
    /\ main_hwnd = HwndOf(1)
    /\ engine_thread = 0
    /\ stop_event_ref = 0
    /\ event_set = {}
    /\ th = [t \in Threads |-> NoThread]
    /\ hk = HkIdle("")
    /\ gui = [pc |-> "idle", then_stop_set |-> FALSE]
    /\ stop_thread = FALSE
    /\ errors = {}
    /\ since_fire = [h \in Hwnds |-> -1]

NextToggle ==
    /\ \/ (HkToggle \/ HotkeyStep) /\ Observe(0)
       \/ \E t \in Threads :
            \/ (EngineBegin(t) \/ EngineTick(t) \/ EngineScan(t) \/ EngineExit(t))
                  /\ Observe(0)
            \/ EngineClient(t) /\ Observe(KeysTime(th'[t].log))
            \/ EngineWait(t) /\ Observe(IF t \in event_set THEN 0 ELSE 1)
            \/ TimePasses(t) /\ Observe(1)
    /\ UNCHANGED <<condVars, lookupVars, macroVars, snapVars, postVars, baseVars,
                   raceVars, keysVars, loopVars>>

SpecToggle == InitToggle /\ [][NextToggle]_vars

InitRace ==
    RaceInit /\ CondIdle /\ LookupIdle /\ SchedIdle /\ SnapIdle /\ PostIdle
    /\ BaseIdle /\ ToggleIdle /\ KeysIdle /\ LoopIdle

NextRace ==
    /\ \E w \in Workers :
          \/ \E name \in {"rrA", "rrB", "burst"} : RaceTargets(w, name)
          \/ RacePick(w)
          \/ RaceLoad(w)
          \/ RaceStore(w)
    /\ UNCHANGED <<condVars, lookupVars, schedVars, snapVars, postVars, baseVars,
                   toggleVars, keysVars, loopVars>>

SpecRace == InitRace /\ [][NextRace]_vars

InitKeys ==
    KeysInit /\ CondIdle /\ LookupIdle /\ MacroIdle /\ SchedIdle /\ SnapIdle
    /\ PostIdle /\ BaseIdle /\ ToggleIdle /\ RaceIdle /\ LoopIdle

NextKeys ==
    /\ \/ \E name \in ListenerKeys : KeyDown(name) \/ KeyUp(name)
       \/ \E w \in Hwnds \cup {OtherWindow} : FocusChanges(w)
    /\ UNCHANGED <<condVars, lookupVars, macroVars, schedVars, snapVars, postVars,
                   baseVars, toggleVars, raceVars, loopVars>>

SpecKeys == InitKeys /\ [][NextKeys]_vars

InitLoop ==
    LoopInit /\ CondIdle /\ LookupIdle /\ WindowsIdle /\ proc_hwnd = <<>>
    /\ MacroIdle /\ SchedIdle /\ SnapIdle /\ PostIdle /\ BaseIdle /\ ToggleIdle
    /\ RaceIdle /\ KeysIdle

NextLoop ==
    /\ \/ CbTest
       \/ CbStopGet
       \/ CbStopSet
       \/ CbStartPut
       \/ CbStartThread
       \/ StopAllLoops
       \/ \E t \in LoopIds :
            \/ LoopWhile(t)
            \/ LoopRun(t)
            \/ LoopWait(t)
            \/ LoopPopStop(t)
            \/ LoopPopThread(t)
    /\ UNCHANGED <<condVars, lookupVars, windowVars, proc_hwnd, macroVars,
                   schedVars, snapVars, postVars, baseVars, toggleVars, raceVars,
                   keysVars>>

SpecLoop == InitLoop /\ [][NextLoop]_vars

\* SpecHealth: a set runs with its two clients; the set ends by stop_set or
\* by the soft stop of the health check
InitHealth ==
    /\ CondIdle /\ LookupIdle /\ MacroIdle /\ SnapIdle /\ PostIdle /\ ExtraIdle
    /\ running_set = TRUE
    /\ proc_hwnd = [s \in Slots |-> HwndOf(s)]
    /\ memory_readers = [h \in Hwnds |-> 0]
    /\ cfg_assigned \in {<<"spam", "">>, <<"heal", "gone">>}
    /\ window_alive = Hwnds
    /\ hwnds = SortedSeq(Hwnds)
    /\ main_hwnd = HwndOf(1)
    /\ engine_thread = 0
    /\ stop_event_ref = 0
    /\ event_set = {}
    /\ th = [t \in Threads |-> NoThread]
    /\ hk = HkIdle("")
    /\ gui = [pc |-> "idle", then_stop_set |-> FALSE]
    /\ stop_thread = FALSE
    /\ errors = {}
    /\ since_fire = [h \in Hwnds |-> -1]

NextHealth ==
    /\ \/ SoftStop
       \/ \E h \in Hwnds : WindowCloses(h)
       \/ GuiStopSet
       \/ GuiStep
       \/ StopSetThread
       \/ HkToggle
       \/ HotkeyStep
       \/ EngineStep
    /\ UNCHANGED callVars

SpecHealth == InitHealth /\ [][NextHealth]_vars /\ Fairness

\* SpecRule: the engine runs rotations that hold rules without conditions
InitRule ==
    /\ CondIdle /\ LookupIdle /\ MacroIdle /\ SnapIdle /\ PostIdle /\ ExtraIdle
    /\ running_set = TRUE
    /\ proc_hwnd = [s \in Slots |-> HwndOf(s)]
    /\ memory_readers = [h \in Hwnds |-> 0]
    /\ cfg_assigned \in {<<"mute", "bang">>, <<"spam", "mute">>}
    /\ window_alive = Hwnds
    /\ hwnds = SortedSeq(Hwnds)
    /\ main_hwnd = HwndOf(1)
    /\ engine_thread = 1
    /\ stop_event_ref = 1
    /\ event_set = {}
    /\ th = [t \in Threads |-> IF t = 1 THEN [NoThread EXCEPT !.pc = "begin"]
                                ELSE NoThread]
    /\ hk = HkIdle("")
    /\ gui = [pc |-> "idle", then_stop_set |-> FALSE]
    /\ stop_thread = FALSE
    /\ errors = {}
    /\ since_fire = [h \in Hwnds |-> -1]

NextRule ==
    /\ \/ HkToggle
       \/ HotkeyStep
       \/ EngineStep
    /\ UNCHANGED callVars

SpecRule == InitRule /\ [][NextRule]_vars

InitSnap ==
    SnapInit /\ CondIdle /\ LookupIdle /\ WindowsIdle /\ proc_hwnd = <<>>
    /\ MacroIdle /\ SchedIdle /\ PostIdle /\ ExtraIdle

NextSnap ==
    Snapshot /\ UNCHANGED <<condVars, lookupVars, windowVars, proc_hwnd, macroVars,
                            schedVars, postVars, extraVars>>

SpecSnap == InitSnap /\ [][NextSnap]_vars

InitBase ==
    BaseInit /\ CondIdle /\ LookupIdle /\ WindowsIdle /\ proc_hwnd = <<>>
    /\ MacroIdle /\ SchedIdle /\ SnapIdle /\ PostIdle /\ ToggleIdle /\ RaceIdle /\ KeysIdle
    /\ LoopIdle

NextBase ==
    /\ ResolveBase \/ MemoryChanges
    /\ UNCHANGED <<condVars, lookupVars, windowVars, proc_hwnd, macroVars,
                   schedVars, snapVars, postVars, toggleVars, raceVars,
                   keysVars, loopVars>>

SpecBase == InitBase /\ [][NextBase]_vars

InitPost ==
    PostIdle /\ CondIdle /\ LookupIdle /\ WindowsIdle /\ proc_hwnd = <<>>
    /\ MacroIdle /\ SchedIdle /\ SnapIdle /\ ExtraIdle

NextPost ==
    /\ \/ \E p \in Broadcasters :
            \/ CallBroadcast(p)
            \/ AcquireLock(p)
            \/ EnterPost(p)
            \/ LeavePost(p)
            \/ ReleaseLock(p)
            \/ BroadcastClick(p)
       \/ \E w \in ClickWorkers : ClickEnter(w) \/ ClickLeave(w)
    /\ UNCHANGED <<condVars, lookupVars, windowVars, proc_hwnd, macroVars,
                   schedVars, snapVars, extraVars>>

SpecPost == InitPost /\ [][NextPost]_vars

InitMacro == MacroInit /\ CondIdle /\ LookupIdle /\ SchedIdle /\ SnapIdle /\ PostIdle /\ ExtraIdle

NextMacro ==
    (\E name \in MacroNames : RunMacro(name))
    /\ UNCHANGED <<condVars, lookupVars, schedVars, snapVars, postVars, extraVars>>

SpecMacro == InitMacro /\ [][NextMacro]_vars

\* --------------------------------------------------------------------------
\* Claims on the rotation engine (Spec, SpecLive)
\* --------------------------------------------------------------------------

\* the snapshot the engine took for the client of log
LogStats(log) == PolledStats[log.cache0][log.img].stats

\* all(...) of rule i of the rotation of log on that snapshot
LogMet(log, i) ==
    AllConditionsMet(Rotations[log.rot].rules[i].conditions, LogStats(log),
                     CharacterNames)

\* the logs of the clients whose rules the engine went through
RuleLogs ==
    {th[t].log : t \in {u \in Threads : th[u].log.state \in {"evaluated", "raised"}}}

\* C1: in a tick, for a client that is due and has a snapshot, the rules are
\* evaluated in list order up to the first rule whose conditions all hold;
\* the keys of that rule, and of no other, are posted, and no rule after it
\* is evaluated.  When every rule before a matching rule evaluates to false
\* that rule is the one that fires.  Rules [hp < 50 -> "1", hp < 100 -> "2"]
\* with hp = 40 post the key "1" alone after evaluating rule 1 alone.
C1_FirstMatchWins ==
    \A log \in RuleLogs :
        LET rules == Rotations[log.rot].rules IN
        /\ log.fired \in 0..Len(rules)
        /\ log.fired # 0 =>
              /\ LogMet(log, log.fired) = Returns(TRUE)
              /\ \A j \in 1..(log.fired - 1) : LogMet(log, j) = Returns(FALSE)
              /\ log.evaluated = [k \in 1..log.fired |-> k]
              /\ log.posts = KeyPosts(log.hwnd, rules[log.fired].keys_to_press)
        /\ log.fired = 0 => log.posts = <<>>
        /\ \A i \in 1..Len(rules) :
              (/\ LogMet(log, i) = Returns(TRUE)
               /\ \A j \in 1..(i - 1) : LogMet(log, j) = Returns(FALSE))
              => log.fired = i
        /\ (log.rot = "heal" /\ LogStats(log).player_hp_percent = 40) =>
              /\ log.evaluated = <<1>>
              /\ log.posts = <<[hwnd |-> log.hwnd, vk |-> KeyOne, type |-> "down"],
                               [hwnd |-> log.hwnd, vk |-> KeyOne, type |-> "up"]>>

\* C1 witness: a client with rotation "heal" whose snapshot shows 40 % health
\* (both rules match) has just gone through its rules and fired rule 1.
C1_Witness ==
    \E log \in RuleLogs :
        /\ log.rot = "heal"
        /\ LogStats(log).player_hp_percent = 40
        /\ LogMet(log, 2) = Returns(TRUE)
        /\ log.fired = 1

\* the logs of the clients that fired a rule after an earlier fire in the
\* same run of the engine
RefireLogs ==
    {th[t].log : t \in {u \in Threads : /\ th[u].log.fired # 0
                                         /\ th[u].log.gap # -1}}

\* C2: while the engine runs, the time from one fire for a client to the
\* next fire for the same client is at least the loop_interval of its
\* rotation, whatever the snapshots are (0.5 s for "heal": at most one fire
\* in any window of 0.5 s).
C2_FiresSeparated ==
    \A log \in RefireLogs : log.gap >= Rotations[log.rot].loop_interval

\* C2 witness: a client with rotation "heal" (interval 0.5 s) fires for the
\* second time in a run of the engine.
C2_Witness ==
    \E log \in RefireLogs : log.rot = "heal" /\ log.state = "evaluated"

\* the logs of the clients the engine polled in the tick in progress, with
\* the thread that polled
PolledLogs ==
    {<<t, th[t].log>> : t \in {u \in Threads :
        th[u].log.state \in {"no_snapshot", "evaluated", "raised"}}}

\* C3: a poll of a client whose object manager cannot be resolved gives no
\* snapshot, fires nothing, raises nothing and leaves the engine running;
\* a poll whose reads succeed, at a tick where the client is due, fires a
\* rule of the rotation whose conditions all hold on the snapshot.
C3_SkipsThenResumes ==
    \A p \in PolledLogs :
        LET t == p[1]
            log == p[2]
            rules == Rotations[log.rot].rules
        IN /\ (/\ log.has_reader
               /\ GetObjectManagerBase(log.cache0, SchedImages[log.img]).ret = 0)
              => /\ log.state = "no_snapshot"
                 /\ log.fired = 0
                 /\ log.posts = <<>>
                 /\ ~log.recorded
                 /\ th[t].pc # "crashed"
           /\ (/\ log.state # "no_snapshot"
               /\ \E i \in 1..Len(rules) : LogMet(log, i) = Returns(TRUE))
              => /\ log.fired # 0
                 /\ LogMet(log, log.fired) = Returns(TRUE)
                 /\ th[t].pc # "crashed"

\* C9: once the stop event of a running engine thread is set, the thread
\* begins no further tick and reaches the lines after its loop: it clears
\* _rotation_engine_thread and reports STOPPED.
C9_StopReachesStopped ==
    /\ [](\A t \in Threads : ~th[t].tick_after_stop)
    /\ \A t \in Threads :
          (t \in event_set /\ th[t].pc \in {"top", "scan", "clients", "wait"})
              ~> (th[t].pc = "stopped")

\* no slot of the running set has a window that still exists
NoManagedWindow == \A s \in DOMAIN proc_hwnd : proc_hwnd[s] \notin window_alive

\* a start request is turned down: nothing is created, nothing is raised,
\* the status message is the only effect
StartRefused ==
    /\ hk' = HkIdle("Cannot start rotation engine: No set is running.")
    /\ stop_event_ref' = stop_event_ref
    /\ engine_thread' = engine_thread
    /\ event_set' = event_set
    /\ th' = th
    /\ errors' = errors

\* C10 as stated: a start request made when no managed client has a window
\* that exists is turned down with a status message.
C10_NoWindowNoStart ==
    [][(hk.pc = "else" /\ hk' # hk /\ NoManagedWindow) => StartRefused]_vars

\* C10 amended: a start request made when no set is running (running_set is
\* None) is turned down with the status message "Cannot start rotation
\* engine: No set is running."; no event and no thread is created, no error
\* is raised and no engine thread is alive.
C10_NoSetNoStart ==
    [][(hk.pc = "else" /\ hk' # hk /\ ~running_set)
        => (StartRefused /\ \A t \in Threads : ~IsAlive(th'[t]))]_vars

\* C10 witness: a start request was turned down with the status message; no
\* set is running and no engine thread exists.
C10_Witness ==
    /\ hk = HkIdle("Cannot start rotation engine: No set is running.")
    /\ ~running_set
    /\ engine_thread = 0
    /\ \A t \in Threads : th[t] = NoThread

\* --------------------------------------------------------------------------
\* Claims on the snapshot (SpecSnap)
\* --------------------------------------------------------------------------

\* the keys of a snapshot that describe the player
PlayerKeys ==
    {"player_hp", "player_max_hp", "player_mp", "player_max_mp",
     "player_hp_percent", "player_mp_percent", "player_level", "combo_points"}

\* a target is selected and a read on the way to its statistics fails: in
\* the object lookup, of the descriptor pointer, or of a statistic
SnTargetStatsFail ==
    /\ sn_mem.target_guid.ok /\ sn_mem.target_guid.v = GuidOf(2)
    /\ \/ ~sn_mem.guid[2].ok
       \/ ~sn_mem.next[1].ok
       \/ ~sn_mem.storage[2].ok
       \/ ~sn_mem.hp[2].ok
       \/ ~sn_mem.maxhp[2].ok
       \/ ~sn_mem.level[2].ok

\* a target is selected and found, and a read of the name chain fails
SnTargetNameFails ==
    /\ sn_mem.target_guid.ok /\ sn_mem.target_guid.v = GuidOf(2)
    /\ sn_mem.guid[2].ok /\ sn_mem.next[1].ok
    /\ \/ ~sn_mem.name1[2].ok
       \/ ~sn_mem.name2[2].ok
       \/ ~sn_mem.name[2].ok

\* C11: with a non-zero target identifier, a failed read in the target
\* sub-path (the object lookup, the descriptor pointer, a statistic, the
\* name chain) still gives a snapshot: the player's statistics are those
\* read, the target's statistics are zero after a failure on the way to
\* them, and the target name is empty after a failure in the name chain.
C11_TargetFailureDegrades ==
    (sn_ret.pc = "returned" /\ (SnTargetStatsFail \/ SnTargetNameFails)) =>
        /\ sn_ret.some
        /\ \A k \in PlayerKeys : sn_ret.stats[k] = PlayerStats(sn_mem, 1)[k]
        /\ sn_ret.stats.has_target
        /\ SnTargetStatsFail =>
             /\ sn_ret.stats.target_hp = 0
             /\ sn_ret.stats.target_max_hp = 0
             /\ sn_ret.stats.target_hp_percent = 0
             /\ sn_ret.stats.target_level = 0
        /\ SnTargetNameFails => sn_ret.stats.target_name = EmptyStr

\* --------------------------------------------------------------------------
\* Claims on the posts (SpecPost)
\* --------------------------------------------------------------------------

\* the threads inside a call of win32gui.PostMessage
InPost == {p \in DOMAIN poster : poster[p].pc = "in_post"}

\* C12: a thread inside a post call (key down, key up, character, mouse
\* button down or up) holds the dispatch lock, so no two threads are inside
\* a post call at the same time.
C12_PostsUnderLock ==
    /\ \A p \in InPost : lock_owner = p
    /\ Cardinality(InPost) <= 1

\* --------------------------------------------------------------------------
\* Claims on the rotation engine, continued (Spec, SpecLive)
\* --------------------------------------------------------------------------

\* thread t goes through the body of the client loop for one client
ClientStep(t) == th[t].pc = "clients" /\ th'[t].i = th[t].i + 1

\* C13: when a due client has a snapshot and no rule of its rotation has all
\* its conditions true, no key is posted and the client's last-fire time is
\* what it was (no entry stays no entry), so the client is due again at the
\* next tick.
C13_NoMatchKeepsTimestamp ==
    [][\A t \in Threads :
         (/\ ClientStep(t)
          /\ th'[t].log.state = "evaluated"
          /\ th'[t].log.fired = 0)
         => LET h == th'[t].log.hwnd
                before == th[t].map
                after == th'[t].map
            IN /\ th'[t].log.posts = <<>>
               /\ ~th'[t].log.recorded
               /\ (h \in DOMAIN after) = (h \in DOMAIN before)
               /\ h \in DOMAIN before => after[h] = before[h]
               /\ since_fire'[h] = since_fire[h]
               /\ ~(Elapsed(after, h) < Rotations[th'[t].log.rot].loop_interval)
      ]_vars

\* C13 witness: a client with rotation "heal" that fired before is polled at
\* full health (no rule matches) and nothing fires.
C13_Witness ==
    \E t \in Threads :
        /\ th[t].log.state = "evaluated"
        /\ th[t].log.fired = 0
        /\ th[t].log.rot = "heal"
        /\ th[t].log.hwnd \in DOMAIN th[t].map
        /\ \A i \in 1..2 : LogMet(th[t].log, i) = Returns(FALSE)

\* C14: a failure while a client is processed (no reader or no snapshot, a
\* failed memory read, a condition that cannot be evaluated) leaves the
\* engine thread in its loop: it goes on to the next client of the tick, or
\* to the wait at the end of the tick, and no exception leaves the thread.
C14_FailureIsolated ==
    \A t \in Threads :
        th[t].log.state \in {"no_snapshot", "raised"} =>
            /\ th[t].pc = IF th[t].i \in 1..Len(th[t].active)
                          THEN "clients" ELSE "wait"
            /\ "TypeError" \notin errors

\* --------------------------------------------------------------------------
\* Claims on the condition evaluator, continued (SpecCond)
\* --------------------------------------------------------------------------

\* the boolean of a boolean-like statistic on the extracted snapshot
CcStatBool ==
    IF cc_cond.stat = "has_target"
    THEN GetCombatStats(0, cc_mem).stats.has_target
    ELSE CcTargetIsOwn

\* C15: for has_target and target_is_own_character compared with the
\* literal 0 or 1 on an extracted snapshot, "==" is true exactly when the
\* statistic's boolean equals the expected boolean (1 -> true, 0 -> false),
\* "!=" is its negation, and every other operator evaluates to false.
C15_BooleanStats ==
    (/\ cc_ret.pc # "call"
     /\ CcFromExtractor
     /\ cc_cond.stat \in {"has_target", "target_is_own_character"}
     /\ cc_cond.value \in {IntVal(0), IntVal(1)})
    => /\ cc_ret.pc = "returned"
       /\ cc_ret.val =
            (IF cc_cond.operator = "=="
             THEN CcStatBool = (cc_cond.value = IntVal(1))
             ELSE IF cc_cond.operator = "!="
             THEN CcStatBool # (cc_cond.value = IntVal(1))
             ELSE FALSE)

\* the numeric statistics of a snapshot
NumericStats ==
    {"player_hp_percent", "player_mp_percent", "player_level", "target_level",
     "target_hp_percent", "combo_points"}

\* the literals of the evaluator's inputs that float() accepts, with the
\* number each gives
NumberOf ==
    [v \in {IntVal(0), IntVal(1), IntVal(50), StrVal(StrFifty), StrVal(StrOne)} |->
        IF v = StrVal(StrFifty) THEN 50
        ELSE IF v = StrVal(StrOne) THEN 1
        ELSE v.n]

\* C16: for a numeric statistic and each of the six operators the condition
\* is the comparison of the snapshot's value with the number of the
\* literal; a literal that is no number makes the condition false.
C16_NumericComparisons ==
    (/\ cc_ret.pc # "call"
     /\ cc_cond.stat \in NumericStats
     /\ cc_cond.operator \in {"<", ">", "==", "!=", "<=", ">="})
    => LET a == GetCombatStats(0, cc_mem).stats[cc_cond.stat]
           op == cc_cond.operator
       IN /\ cc_ret.pc = "returned"
          /\ cc_cond.value \notin DOMAIN NumberOf => cc_ret.val = FALSE
          /\ cc_cond.value \in DOMAIN NumberOf =>
               LET b == NumberOf[cc_cond.value]
               IN /\ op = "<" => cc_ret.val = (a < b)
                  /\ op = ">" => cc_ret.val = (a > b)
                  /\ op = "==" => cc_ret.val = (a = b)
                  /\ op = "!=" => cc_ret.val = (a # b)
                  /\ op = "<=" => cc_ret.val = (a <= b)
                  /\ op = ">=" => cc_ret.val = (a >= b)

\* C16 witness: "player_hp_percent <= '50'" evaluated on a snapshot with
\* 50 % health is true.
C16_Witness ==
    /\ cc_ret = [pc |-> "returned", val |-> TRUE]
    /\ cc_cond = Condition("player_hp_percent", "<=", StrVal(StrFifty))
    /\ GetCombatStats(0, cc_mem).stats.player_hp_percent = 50

\* --------------------------------------------------------------------------
\* Claims on the snapshot, continued (SpecSnap)
\* --------------------------------------------------------------------------

\* p is an integer nearest to value / max * 100, max > 0
NearestPercent(p, value, max) ==
    LET e == 100 * value - p * max
    IN 2 * (IF e < 0 THEN -e ELSE e) <= max

\* the (value, max, percent) keys of a snapshot
PercentKeys ==
    {<<"player_hp", "player_max_hp", "player_hp_percent">>,
     <<"player_mp", "player_max_mp", "player_mp_percent">>,
     <<"target_hp", "target_max_hp", "target_hp_percent">>}

\* C17: when every read succeeds a snapshot is returned whatever the
\* integers read are, and in every returned snapshot each percentage is the
\* integer nearest to value / max * 100 when max > 0 and is 0 when max is 0
\* or negative; 4500 of 6000 gives 75.
C17_Percentages ==
    sn_ret.pc = "returned" =>
        /\ ~(SnTargetStatsFail \/ SnTargetNameFails) => sn_ret.some
        /\ sn_ret.some =>
             \A k \in PercentKeys :
                LET value == sn_ret.stats[k[1]]
                    max == sn_ret.stats[k[2]]
                    p == sn_ret.stats[k[3]]
                IN /\ max > 0 => NearestPercent(p, value, max)
                   /\ max <= 0 => p = 0
                   /\ (value = 4500 /\ max = 6000) => p = 75

\* C17 witness: a snapshot with the player at 4500 of 6000 health (75 %),
\* no power (max 0) and a target of 9 health with max 0 (0 %).
C17_Witness ==
    /\ sn_ret.pc = "returned"
    /\ sn_ret.some
    /\ sn_ret.stats.player_hp = 4500
    /\ sn_ret.stats.player_max_hp = 6000
    /\ sn_ret.stats.player_hp_percent = 75
    /\ sn_ret.stats.player_mp = 3
    /\ sn_ret.stats.player_max_mp = 0
    /\ sn_ret.stats.target_hp = 9
    /\ sn_ret.stats.target_hp_percent = 0

\* --------------------------------------------------------------------------
\* Claims on the rotation engine, continued (Spec)
\* --------------------------------------------------------------------------

\* the keys of a sequence that have a key code
WithKeyCode(keys) == SelectSeq(keys, LAMBDA k : Lower(k) \in VK_CODE_MAP)

\* C18: when a rule fires for a client every message posted goes to that
\* client's window; key by key in the order of the rule, the key-down
\* message is followed by the key-up message of the same key; and the time
\* recorded for the client is the time after the sequence (one key delay
\* per key later than the start of the fire).
C18_KeysToOwnWindow ==
    \A t \in Threads :
        LET log == th[t].log IN
        log.fired # 0 =>
            LET keys == Rotations[log.rot].rules[log.fired].keys_to_press
                sent == WithKeyCode(keys)
            IN /\ \A i \in DOMAIN log.posts : log.posts[i].hwnd = log.hwnd
               /\ Len(log.posts) = 2 * Len(sent)
               /\ \A j \in 1..Len(sent) :
                     /\ log.posts[2 * j - 1] =
                          [hwnd |-> log.hwnd, vk |-> Lower(sent[j]), type |-> "down"]
                     /\ log.posts[2 * j] =
                          [hwnd |-> log.hwnd, vk |-> Lower(sent[j]), type |-> "up"]
               /\ log.recorded
               /\ log.hwnd \in DOMAIN th[t].map
               /\ since_fire[log.hwnd] = AgeAdd(th[t].map[log.hwnd], Len(keys))

\* C18 witness: the two-key rule of "assist" fired for the client of slot 1
\* while another client is active: four messages, all to window 101.
C18_Witness ==
    \E t \in Threads :
        /\ th[t].log.rot = "assist"
        /\ th[t].log.fired = 1
        /\ th[t].log.hwnd = HwndOf(1)
        /\ Len(th[t].log.posts) = 4
        /\ Len(th[t].active) = 2

\* C19: while an engine thread is inside its scan of proc_hwnd no other
\* thread has changed the map since the scan began (the accesses are
\* mutually exclusive, or the scan runs on a snapshot), so the scan never
\* fails on a map that changed under it.
C19_ScanExclusive ==
    /\ \A t \in Threads :
          th[t].pc = "scan" => Cardinality(DOMAIN proc_hwnd) = th[t].used
    /\ "RuntimeError" \notin errors

\* --------------------------------------------------------------------------
\* Claims on the assignments (SpecEdit)
\* --------------------------------------------------------------------------

\* the clients that are to be active: the slots of the set whose window
\* exists and whose assigned rotation is a rotation of the configuration
ToBeActive ==
    {[hwnd |-> proc_hwnd[s], rotation |-> cfg_assigned[s]] :
        s \in {x \in DOMAIN proc_hwnd : /\ proc_hwnd[x] \in window_alive
                                        /\ cfg_assigned[x] \in DOMAIN Rotations}}

C21_BaseCache ==
    om_last.called =>
        /\ (om_last.cache0 = 0 /\ ChainReadFails(om_last.mem)
                => om_last.ret = 0 /\ om_cache = 0)
        /\ (om_last.cache0 = 0 /\ ~ChainReadFails(om_last.mem)
                => /\ om_last.ret = IF om_last.mem.conn.v = 0 THEN 0
                                    ELSE om_last.mem.base.v
                   /\ om_cache = om_last.ret)
        /\ (om_last.cache0 # 0
                => om_last.ret = om_last.cache0 /\ om_cache = om_last.cache0)

\* C21 witness: after a call whose read failed, the next call resolved the
\* base, and a later call returned the cached base though the memory now
\* holds another one
C21_Witness ==
    /\ om_last.called
    /\ om_last.retried
    /\ om_last.cache0 # 0
    /\ om_last.mem.base # Ok(om_last.cache0)
    /\ om_last.ret = om_last.cache0

\* --------------------------------------------------------------------------
\* Claims on the target policies (SpecMacro)
\* --------------------------------------------------------------------------

\* policy names that are none of main, all, all_except_main, slots and
\* round_robin (the comparison is by exact text)
UnknownTargets == {"everyone", "", "ALL", "Main", "rr"}

\* C22: _targets_for with a policy name it does not know returns what it
\* returns for "all", the whole of self.hwnds, and leaves _rr_state as it
\* was; every run of a macro with such a policy targeted all the windows and
\* left the macro's own index where it was.
C22_UnknownPolicyIsAll ==
    /\ \A t \in UnknownTargets :
          LET r == TargetsFor(t, <<2, 1>>, hwnds, main_hwnd, proc_hwnd, rr_state)
          IN /\ r = TargetsFor("all", <<2, 1>>, hwnds, main_hwnd, proc_hwnd,
                                rr_state)
             /\ r.ret = hwnds
             /\ r.rr_state = rr_state
    /\ \A name \in MacroNames :
          Macros[name].target \in UnknownTargets =>
              /\ rr_index[name] = 0
              /\ \A k \in 1..Len(mac_log[name]) : mac_log[name][k] = hwnds

\* C22 witness: with four windows and the shared round-robin index already
\* advanced, the macro with the unknown policy ran and targeted all four
C22_Witness ==
    /\ Len(hwnds) = 4
    /\ RrGet(rr_state, "__rr_default__") > 0
    /\ Len(mac_log["odd"]) > 0
    /\ mac_log["odd"][Len(mac_log["odd"])] = hwnds

\* --------------------------------------------------------------------------
\* Claims on the engine's start and stop (Spec, SpecLive)
\* --------------------------------------------------------------------------

\* the engine threads inside the while loop of _thread_rotation_engine or
\* about to enter it
LoopThreads == {t \in Threads : th[t].pc \in {"begin", "top", "scan", "clients", "wait"}}

C24_TogglesAlternate ==
    [][(/\ tg_last = "stop"
        /\ running_set
        /\ hk.pc # "idle"
        /\ hk'.pc = "idle")
       => hk.pc = "start"]_vars

\* C25: a client that fires has not fired in the time of its rotation's
\* loop_interval before, also when the engine was stopped and started again
\* since its last fire.
C25_TimestampSurvivesRestart ==
    [][\A t \in Threads :
         (ClientStep(t) /\ th'[t].log.fired # 0)
         => LET h == th'[t].log.hwnd
            IN \/ tg_since[h] = -1
               \/ tg_since[h] >= Rotations[th'[t].log.rot].loop_interval]_vars

\* --------------------------------------------------------------------------
\* Claims on concurrent runs of a macro (SpecRace)
\* --------------------------------------------------------------------------

\* C26: whatever the interleaving of the threads that run a round-robin
\* macro, run k of the macro (counted from 0, in the order the runs pick
\* their handle) targets element k mod n of the non-main handle list, so two
\* runs pick consecutive handles, and once no run is in progress the macro's
\* index is the number of its runs mod n: no advance is lost.
C26_ConcurrentRoundRobin ==
    \A name \in MacroNames :
        Macros[name].target = "round_robin" =>
            LET arr == RoundRobinArr(hwnds, main_hwnd)
            IN /\ \A k \in 1..Len(mac_log[name]) :
                     mac_log[name][k] = <<arr[((k - 1) % Len(arr)) + 1]>>
               /\ (\A w \in Workers : worker[w].name # name)
                     => rr_index[name] = Len(mac_log[name]) % Len(arr)

\* --------------------------------------------------------------------------
\* Claims on the input listener (SpecKeys)
\* --------------------------------------------------------------------------

\* C27: once the listener has received the events of the keyboard, a key
\* that is in _broadcast_keys_down is physically down, whatever window had
\* the focus when it was released (so its next key-down is not taken for a
\* repeat), and a client window that was sent a key-down and no key-up for
\* a key is one whose key is still down.
C27_HeldKeysAreDown ==
    /\ keys_down \subseteq phys_down
    /\ \A h \in Hwnds : key_state[h] \subseteq phys_down

\* --------------------------------------------------------------------------
\* Claims on the macro loops (SpecLoop)
\* --------------------------------------------------------------------------

\* the BC-Loop threads inside the while loop of _loop
Looping == {t \in LoopIds : lp[t].pc \in {"while", "run", "wait"}}

\* C28: at most one thread is inside the loop of the macro at any time; and
\* whenever no call of start_macro_loop is between its two registrations and
\* no thread is between the two pops of its cleanup, _loop_stop has an entry
\* for the name exactly when _loop_threads has one, which is then the thread
\* that waits on that event.
C28_LoopRegistries ==
    /\ Cardinality(Looping) <= 1
    /\ (/\ cb.pc # "start_thread"
        /\ \A t \in LoopIds : lp[t].pc # "pop_thread")
       => loop_stop = loop_threads

\* --------------------------------------------------------------------------
\* Claims on the end of the running set (SpecHealth)
\* --------------------------------------------------------------------------

\* C29: from any moment at which no set is running, the engine gets to
\* have no thread inside _thread_rotation_engine: it is not left running
\* after the set ended, by stop_set or by the soft stop of the health check.
C29_SetEndStopsEngine ==
    (~running_set) ~> (\A t \in Threads : ~IsAlive(th[t]))

\* --------------------------------------------------------------------------
\* Claims on rules without conditions (SpecRule)
\* --------------------------------------------------------------------------

\* the indices of the rules of a rotation that have no condition
Unconditional(rot) ==
    {j \in 1..Len(Rotations[rot].rules) : Rotations[rot].rules[j].conditions = <<>>}

\* the first of them
FirstUnconditional(rot) ==
    CHOOSE j \in Unconditional(rot) : \A k \in Unconditional(rot) : j <= k

\* C30: when the rules of a rotation that holds a rule without conditions
\* are evaluated on a snapshot, a rule fires, and it is that rule or one
\* before it, never one after it; when the evaluation reaches the rule it is
\* the one that fires, its keys are what is posted (nothing for an empty key
\* list or keys without key code), and the client's last-fire time is set to
\* now in every case.
C30_UnconditionalRuleFires ==
    [][\A t \in Threads :
         (/\ ClientStep(t)
          /\ th'[t].log.state = "evaluated"
          /\ Unconditional(th'[t].log.rot) # {})
         => LET log == th'[t].log
                j == FirstUnconditional(log.rot)
                rules == Rotations[log.rot].rules
            IN /\ log.fired \in 1..j
               /\ log.evaluated = [k \in 1..log.fired |-> k]
               /\ log.posts = KeyPosts(log.hwnd, rules[log.fired].keys_to_press)
               /\ log.recorded
               /\ log.hwnd \in DOMAIN th'[t].map
               /\ th'[t].map[log.hwnd] = 0]_vars

\* C30 witness: with rotation "mute", whose rule 1 did not match, rule 2
\* (no condition, no key) fired, posted nothing and set the last-fire time;
\* the other client, whose rotation "bang" fires a rule whose only key has
\* no key code, holds a last-fire time as well
C30_Witness ==
    \E t \in Threads :
        /\ th[t].log.rot = "mute"
        /\ th[t].log.evaluated = <<1, 2>>
        /\ th[t].log.fired = 2
        /\ th[t].log.posts = <<>>
        /\ th[t].log.recorded
        /\ cfg_assigned[2] = "bang"
        /\ HwndOf(2) \in DOMAIN th[t].map

====
